---- MODULE Spec2Model ----
(***************************************************************************)
(* brewlock: the lock document (lock-manager.ts, JSONC format), its codec, *)
(* the upsert / remove / generate operations and the drift check.          *)
(*                                                                         *)
(* JavaScript values are tagged records, so that a string, a number, null  *)
(* and undefined are different values that can be compared.  A plain       *)
(* object is the sequence of its own properties in insertion order         *)
(* (members [k, v]); property names that look like array indices, which    *)
(* JavaScript orders first, are not among the names of the model.          *)
(***************************************************************************)
EXTENDS Integers, Sequences, FiniteSets, TLC

VARIABLES
    lockFile,   \* the document the caller holds (updateLockFile's `lockFile`)
    call,       \* the last operation: its name, arguments, input and result
    steps,      \* number of operations applied so far
    content,    \* the text of the lock file handed to parseLockFile
    parsed,     \* what parseLockFile did with `content`
    sys,        \* the live system the query interface reports on
    checked,    \* the result of the last checkLockFile, with its query log
    replay,     \* the bundleInstall run: position, options, log, result
    update      \* the lock updates in progress, one per invocation

vars == <<lockFile, call, steps, content, parsed, sys, checked, replay, update>>

(***************************************************************************)
(* Bounds of the model                                                     *)
(***************************************************************************)
MaxOps == 2

(***************************************************************************)
(* JavaScript values                                                       *)
(***************************************************************************)
Str(s) == [t |-> "string", v |-> s]
Num(n) == [t |-> "number", v |-> n]
Bool(b) == [t |-> "boolean", v |-> b]
Null == [t |-> "null"]
Undefined == [t |-> "undefined"]
Arr(q) == [t |-> "array", v |-> q]
Obj(ms) == [t |-> "object", v |-> ms]

Member(k, v) == [k |-> k, v |-> v]

Keys(ms) == {ms[i].k : i \in DOMAIN ms}

HasKey(ms, k) == \E i \in DOMAIN ms : ms[i].k = k

\* obj[k]: the value of own property k, undefined when there is none
Get(ms, k) ==
    IF HasKey(ms, k)
    THEN ms[CHOOSE i \in DOMAIN ms : ms[i].k = k].v
    ELSE Undefined

\* { ...obj, [k]: v }: an existing property keeps its place and takes the
\* new value, a new property is added at the end
Put(ms, k, v) ==
    IF HasKey(ms, k)
    THEN [i \in DOMAIN ms |-> IF ms[i].k = k THEN Member(k, v) ELSE ms[i]]
    ELSE Append(ms, Member(k, v))

\* const { [k]: _, ...rest } = obj
Rest(ms, k) == SelectSeq(ms, LAMBDA m : m.k # k)

\* number of own properties named k (1 at most in a JavaScript object)
Count(ms, k) == Cardinality({i \in DOMAIN ms : ms[i].k = k})

\* JavaScript truthiness of a value
Truthy(x) ==
    CASE x.t = "string" -> x.v # ""
      [] x.t = "number" -> x.v # 0
      [] x.t = "boolean" -> x.v
      [] x.t \in {"null", "undefined"} -> FALSE
      [] OTHER -> TRUE

\* a ?? b
Coalesce(a, b) == IF a.t \in {"null", "undefined"} THEN b ELSE a

(***************************************************************************)
(* Deep equality of values: objects are equal when they have the same      *)
(* property names and equal values, whatever the insertion order.          *)
(***************************************************************************)
RECURSIVE DeepEq(_, _)
DeepEq(a, b) ==
    IF a.t # b.t THEN FALSE
    ELSE IF a.t = "object"
    THEN /\ Keys(a.v) = Keys(b.v)
         /\ \A k \in Keys(a.v) : DeepEq(Get(a.v, k), Get(b.v, k))
    ELSE a = b

\* two sections hold the same name-to-record mapping
SameMapping(m1, m2) == DeepEq(Obj(m1), Obj(m2))

\* two documents are deeply equal
SameDoc(d1, d2) ==
    /\ d1.version = d2.version
    /\ SameMapping(d1.tap, d2.tap)
    /\ SameMapping(d1.brew, d2.brew)
    /\ SameMapping(d1.cask, d2.cask)
    /\ SameMapping(d1.mas, d2.mas)

(***************************************************************************)
(* The lock document                                                       *)
(***************************************************************************)
LOCK_VERSION == 1

PackageTypes == {"tap", "brew", "cask", "mas"}

createEmptyLockFile ==
    [version |-> LOCK_VERSION, tap |-> <<>>, brew |-> <<>>, cask |-> <<>>, mas |-> <<>>]

\* What a call does with a document it is given: the value it returns and
\* the value the caller's own document object has afterwards.  The functions
\* below build the result with object spread and assign to nothing they
\* are given, so the caller's object is left as it was.
Effect(result, input) == [result |-> result, input |-> input]

upsertTap(doc, name, entry) ==
    Effect([doc EXCEPT !.tap = Put(doc.tap, name, entry)], doc)

\* upsertBrew adding the property without looking for an existing one
upsertBrew_Append(doc, name, entry) ==
    Effect([doc EXCEPT !.brew = Append(doc.brew, Member(name, entry))], doc)

upsertBrew(doc, name, entry) ==
    Effect([doc EXCEPT !.brew = Put(doc.brew, name, entry)], doc)

\* upsertCask writing into the formula mapping
upsertCask_IntoBrew(doc, name, entry) ==
    Effect([doc EXCEPT !.brew = Put(doc.brew, name, entry)], doc)

\* upsertCask that also drops a formula of the same name
upsertCask_Shadow(doc, name, entry) ==
    Effect([doc EXCEPT !.cask = Put(doc.cask, name, entry),
                       !.brew = Rest(doc.brew, name)], doc)

upsertCask(doc, name, entry) ==
    Effect([doc EXCEPT !.cask = Put(doc.cask, name, entry)], doc)

upsertMas(doc, name, entry) ==
    Effect([doc EXCEPT !.mas = Put(doc.mas, name, entry)], doc)

removeTap(doc, name) == Effect([doc EXCEPT !.tap = Rest(doc.tap, name)], doc)

removeBrew(doc, name) == Effect([doc EXCEPT !.brew = Rest(doc.brew, name)], doc)

\* removeCask deleting from the formula mapping
removeCask_FromBrew(doc, name) == Effect([doc EXCEPT !.brew = Rest(doc.brew, name)], doc)

removeCask(doc, name) == Effect([doc EXCEPT !.cask = Rest(doc.cask, name)], doc)

removeMas(doc, name) == Effect([doc EXCEPT !.mas = Rest(doc.mas, name)], doc)

\* upsert(doc, kind, name, record): the upsert function of the kind
upsert(doc, type, name, entry) ==
    CASE type = "tap" -> upsertTap(doc, name, entry)
      [] type = "brew" -> upsertBrew(doc, name, entry)
      [] type = "cask" -> upsertCask(doc, name, entry)
      [] type = "mas" -> upsertMas(doc, name, entry)

removeEntry(doc, type, name) ==
    CASE type = "tap" -> removeTap(doc, name)
      [] type = "brew" -> removeBrew(doc, name)
      [] type = "cask" -> removeCask(doc, name)
      [] type = "mas" -> removeMas(doc, name)

(***************************************************************************)
(* The codec.  The text of a lock file is modelled by what a JSONC reader  *)
(* sees in it: nothing but white space ("blank"), text that is not JSONC   *)
(* ("invalid"), or a JSON value, with or without comments.                 *)
(***************************************************************************)
Text(v, c) == [syntax |-> "json", comments |-> c, value |-> v]
BlankText == [syntax |-> "blank", comments |-> FALSE, value |-> Null]
InvalidText == [syntax |-> "invalid", comments |-> FALSE, value |-> Null]

\* the outcome of a call that may throw
Return(v) == [threw |-> FALSE, value |-> v]
Throw == [threw |-> TRUE, value |-> Null]

\* JSON.stringify on a value: a property whose value is undefined is left
\* out, an undefined array element is written as null
RECURSIVE Stringify(_)
Stringify(x) ==
    CASE x.t = "object" ->
           LET kept == SelectSeq(x.v, LAMBDA m : m.v.t # "undefined")
           IN Obj([i \in DOMAIN kept |-> Member(kept[i].k, Stringify(kept[i].v))])
      [] x.t = "array" ->
           Arr([i \in DOMAIN x.v |->
                  IF x.v[i].t = "undefined" THEN Null ELSE Stringify(x.v[i])])
      [] OTHER -> x

\* the document as the JavaScript object JSON.stringify is given
DocObject(doc) ==
    Obj(<<Member("version", Num(doc.version)),
          Member("tap", Obj(doc.tap)),
          Member("brew", Obj(doc.brew)),
          Member("cask", Obj(doc.cask)),
          Member("mas", Obj(doc.mas))>>)

serializeLockFile(doc) == Text(Stringify(DocObject(doc)), FALSE)

\* Bun.JSONC.parse: comments are skipped, text that is not JSONC throws
JSONCParse(c) == IF c.syntax = "json" THEN Return(c.value) ELSE Throw

\* x.k for a parsed value x: a TypeError on null and undefined, undefined
\* on a primitive or an array, the property on an object
Prop(x, k) ==
    CASE x.t \in {"null", "undefined"} -> Throw
      [] x.t = "object" -> Return(Get(x.v, k))
      [] OTHER -> Return(Undefined)

(***************************************************************************)
(* The zod schemas of types.ts: a shape is the list of its properties,     *)
(* each with its type and whether it is optional.                          *)
(***************************************************************************)
Field(k, type, optional) == [k |-> k, type |-> type, optional |-> optional]

TapEntrySchema ==
    <<Field("url", "string", TRUE),
      Field("commit", "string", TRUE),
      Field("official", "boolean", TRUE)>>

\* BrewEntrySchema without the revision property
BrewEntrySchema_NoRevision ==
    <<Field("version", "string", FALSE),
      Field("installed", "string[]", TRUE),
      Field("tap", "string", TRUE),
      Field("pinned", "boolean", TRUE),
      Field("dependencies", "string[]", TRUE),
      Field("sha256", "string", TRUE),
      Field("installed_as_dependency", "boolean", TRUE),
      Field("installed_on_request", "boolean", TRUE)>>

BrewEntrySchema ==
    <<Field("version", "string", FALSE),
      Field("installed", "string[]", TRUE),
      Field("revision", "number", TRUE),
      Field("tap", "string", TRUE),
      Field("pinned", "boolean", TRUE),
      Field("dependencies", "string[]", TRUE),
      Field("sha256", "string", TRUE),
      Field("installed_as_dependency", "boolean", TRUE),
      Field("installed_on_request", "boolean", TRUE)>>

CaskEntrySchema ==
    <<Field("version", "string", FALSE),
      Field("tap", "string", TRUE),
      Field("sha256", "string", TRUE),
      Field("auto_updates", "boolean", TRUE)>>

MasEntrySchema ==
    <<Field("id", "number", FALSE),
      Field("version", "string", FALSE)>>

\* z.string(), z.number(), z.boolean(), z.array(z.string())
ZodType(type, x) ==
    CASE type = "string" -> x.t = "string"
      [] type = "number" -> x.t = "number"
      [] type = "boolean" -> x.t = "boolean"
      [] type = "string[]" ->
           /\ x.t = "array"
           /\ \A i \in DOMAIN x.v : x.v[i].t = "string"

\* z.object(shape) accepts x
ZodObjectOk(shape, x) ==
    /\ x.t = "object"
    /\ \A i \in DOMAIN shape :
         LET f == Get(x.v, shape[i].k)
         IN \/ shape[i].optional /\ f.t = "undefined"
            \/ ZodType(shape[i].type, f)

\* z.object(shape) returns the properties of the shape, unknown ones stripped
ZodObjectOut(shape, x) ==
    LET present == SelectSeq(shape, LAMBDA s : HasKey(x.v, s.k))
    IN Obj([i \in DOMAIN present |-> Member(present[i].k, Get(x.v, present[i].k))])

\* z.record(z.string(), z.object(shape))
ZodRecordOk(shape, x) ==
    /\ x.t = "object"
    /\ \A i \in DOMAIN x.v : ZodObjectOk(shape, x.v[i].v)

ZodRecordOut(shape, x) ==
    [i \in DOMAIN x.v |-> Member(x.v[i].k, ZodObjectOut(shape, x.v[i].v))]

\* LockFileSchema accepts the object w (version, tap, brew, cask, mas)
LockFileSchemaOk(w) ==
    /\ ZodType("number", w.version)
    /\ ZodRecordOk(TapEntrySchema, w.tap)
    /\ ZodRecordOk(BrewEntrySchema, w.brew)
    /\ ZodRecordOk(CaskEntrySchema, w.cask)
    /\ ZodRecordOk(MasEntrySchema, w.mas)

\* a validation that drops the records that fail their schema and keeps the
\* others
LockFileSchemaParse_Lenient(w) ==
    LET valid(shape, x) ==
          ZodRecordOut(shape, Obj(SelectSeq(x.v, LAMBDA m : ZodObjectOk(shape, m.v))))
    IN IF /\ ZodType("number", w.version)
          /\ \A type \in PackageTypes : w[type].t = "object"
       THEN Return([version |-> w.version.v,
                    tap |-> valid(TapEntrySchema, w.tap),
                    brew |-> valid(BrewEntrySchema, w.brew),
                    cask |-> valid(CaskEntrySchema, w.cask),
                    mas |-> valid(MasEntrySchema, w.mas)])
       ELSE Throw

\* LockFileSchema.parse(w): the validated document, or a ZodError
LockFileSchemaParse(w) ==
    IF LockFileSchemaOk(w)
    THEN Return([version |-> w.version.v,
                 tap |-> ZodRecordOut(TapEntrySchema, w.tap),
                 brew |-> ZodRecordOut(BrewEntrySchema, w.brew),
                 cask |-> ZodRecordOut(CaskEntrySchema, w.cask),
                 mas |-> ZodRecordOut(MasEntrySchema, w.mas)])
    ELSE Throw

\* the defaults with the format version never read from the text
WithDefaults_FixedVersion(p) ==
    [version |-> Num(LOCK_VERSION),
     tap |-> Coalesce(Prop(p, "tap").value, Obj(<<>>)),
     brew |-> Coalesce(Prop(p, "brew").value, Obj(<<>>)),
     cask |-> Coalesce(Prop(p, "cask").value, Obj(<<>>)),
     mas |-> Coalesce(Prop(p, "mas").value, Obj(<<>>))]

\* parseLockFile, the object built before validation (lines 395-401)
WithDefaults(p) ==
    [version |-> Coalesce(Prop(p, "version").value, Num(LOCK_VERSION)),
     tap |-> Coalesce(Prop(p, "tap").value, Obj(<<>>)),
     brew |-> Coalesce(Prop(p, "brew").value, Obj(<<>>)),
     cask |-> Coalesce(Prop(p, "cask").value, Obj(<<>>)),
     mas |-> Coalesce(Prop(p, "mas").value, Obj(<<>>))]

\* parseLockFile, the body of its try block (lines 393-403)
ParseBody(c) ==
    LET p == JSONCParse(c)
    IN IF p.threw THEN Throw
       ELSE IF Prop(p.value, "version").threw THEN Throw
       ELSE LockFileSchemaParse(WithDefaults(p.value))

\* parseLockFile without its try / catch
parseLockFile_NoCatch(c) ==
    IF c.syntax = "blank" THEN Return(createEmptyLockFile) ELSE ParseBody(c)

parseLockFile(c) ==
    IF c.syntax = "blank" THEN Return(createEmptyLockFile)
    ELSE LET r == ParseBody(c)
         IN IF r.threw THEN Return(createEmptyLockFile) ELSE r

(***************************************************************************)
(* The live system, as the query interface (version-resolver.ts) sees it.  *)
(* A system s is a record:                                                 *)
(*   infoOk    `brew info --json=v2 ...` exits 0 with parsable output      *)
(*   formulae  the formulae brew knows, each with its installed kegs       *)
(*   casks     the casks brew knows, each with its installed version       *)
(*   tapOk     `brew tap` exits 0;  taps: the names it prints              *)
(*   tapInfo   the output of `brew tap-info --json`, Null when it fails    *)
(*   tapHead   the commit `git rev-parse HEAD` gives for a tap, or Null    *)
(*   masOk     `brew list --formula mas` and `mas list` exit 0             *)
(*   masApps   the lines of `mas list`: id, name, version                  *)
(***************************************************************************)
Keg(version, asDep, onRequest) ==
    [version |-> version, installed_as_dependency |-> asDep,
     installed_on_request |-> onRequest]

\* Array.prototype.find: the first element of q among the positions that
\* pass the test, undefined when there is none
Find(q, passing) ==
    IF passing = {} THEN Undefined
    ELSE q[CHOOSE i \in passing : \A j \in passing : i <= j]

\* String.prototype.toLowerCase on the names of the model
ToLowerCase(name) == IF name = "Xcode" THEN "xcode" ELSE name

\* linked_keg ?? installed[0]?.version
ActiveVersion(formula) ==
    Coalesce(formula.linked_keg,
             IF formula.installed = <<>> THEN Undefined
             ELSE Str(formula.installed[1].version))

\* getFormulaVersion: string | null
getFormulaVersion(s, name) ==
    LET formula == Find(s.formulae, {i \in DOMAIN s.formulae : s.formulae[i].name = name})
    IN IF ~s.infoOk \/ formula = Undefined THEN Null
       ELSE IF formula.installed = <<>> THEN Null
       ELSE Coalesce(ActiveVersion(formula), Null)

\* getCaskVersion: string | null
getCaskVersion(s, name) ==
    LET cask == Find(s.casks, {i \in DOMAIN s.casks : s.casks[i].token = name})
    IN IF ~s.infoOk \/ cask = Undefined THEN Null
       ELSE IF ~Truthy(cask.installed) THEN Null
       ELSE cask.installed

\* getAllInstalledFormulae: InstalledPackage[]
FormulaPackage(formula) ==
    LET activeVersion == ActiveVersion(formula)
        activeInstalled == Find(formula.installed,
                               {i \in DOMAIN formula.installed :
                                   Str(formula.installed[i].version) = activeVersion})
    IN [name |-> formula.name,
        version |-> activeVersion,
        type |-> "brew",
        installed |-> Arr([i \in DOMAIN formula.installed |-> Str(formula.installed[i].version)]),
        revision |-> IF formula.revision > 0 THEN Num(formula.revision) ELSE Undefined,
        tap |-> IF formula.tap # "" THEN Str(formula.tap) ELSE Undefined,
        pinned |-> IF formula.pinned THEN Bool(TRUE) ELSE Undefined,
        dependencies |-> IF formula.dependencies # <<>>
                         THEN Arr([i \in DOMAIN formula.dependencies |-> Str(formula.dependencies[i])])
                         ELSE Undefined,
        sha256 |-> Coalesce(formula.sha256, Undefined),
        installed_as_dependency |->
            IF activeInstalled = Undefined THEN Undefined
            ELSE Bool(activeInstalled.installed_as_dependency),
        installed_on_request |->
            IF activeInstalled = Undefined THEN Undefined
            ELSE Bool(activeInstalled.installed_on_request)]

getAllInstalledFormulae(s) ==
    IF ~s.infoOk THEN <<>>
    ELSE LET kept == SelectSeq(s.formulae,
                        LAMBDA f : f.installed # <<>> /\ Truthy(ActiveVersion(f)))
         IN [i \in DOMAIN kept |-> FormulaPackage(kept[i])]

\* getAllInstalledCasks: InstalledPackage[]
getAllInstalledCasks(s) ==
    IF ~s.infoOk THEN <<>>
    ELSE LET kept == SelectSeq(s.casks, LAMBDA c : Truthy(c.installed))
         IN [i \in DOMAIN kept |->
               [name |-> kept[i].token,
                version |-> kept[i].installed,
                type |-> "cask",
                tap |-> IF kept[i].tap # "" THEN Str(kept[i].tap) ELSE Undefined,
                sha256 |-> Coalesce(kept[i].sha256, Undefined),
                auto_updates |-> Coalesce(kept[i].auto_updates, Undefined)]]

\* getAllTaps: string[]
getAllTaps(s) == IF ~s.tapOk THEN <<>> ELSE s.taps

\* getTapCommit: string | null
getTapCommit(s, tapName) == s.tapHead[tapName]

\* getAllTapsWithInfo: TapInfo[]
TapInfoOf(s, tapInfo) ==
    [name |-> tapInfo.name,
     official |-> IF tapInfo.official THEN Bool(TRUE) ELSE Undefined,
     url |-> IF tapInfo.remote # "" /\ ~tapInfo.official
             THEN Str(tapInfo.remote) ELSE Undefined,
     commit |-> IF Truthy(tapInfo.HEAD) THEN tapInfo.HEAD
                ELSE IF Truthy(getTapCommit(s, tapInfo.name))
                THEN getTapCommit(s, tapInfo.name) ELSE Undefined]

NameOnly(name) ==
    [name |-> name, official |-> Undefined, url |-> Undefined, commit |-> Undefined]

getAllTapsWithInfo(s) ==
    LET tapNames == getAllTaps(s)
    IN IF tapNames = <<>> THEN <<>>
       ELSE IF s.tapInfo = Null THEN [i \in DOMAIN tapNames |-> NameOnly(tapNames[i])]
       ELSE [i \in DOMAIN s.tapInfo.v |-> TapInfoOf(s, s.tapInfo.v[i])]

\* getMasApps: InstalledPackage[]
getMasApps(s) ==
    IF ~s.masOk THEN <<>>
    ELSE LET kept == SelectSeq(s.masApps,
                        LAMBDA a : a.id # 0 /\ a.name # "" /\ a.version # "")
         IN [i \in DOMAIN kept |->
               [name |-> kept[i].name, version |-> Str(kept[i].version),
                type |-> "mas", id |-> Num(kept[i].id)]]

\* getPackageVersion: string | null
getPackageVersion(s, type, name) ==
    CASE type = "brew" -> getFormulaVersion(s, name)
      [] type = "cask" -> getCaskVersion(s, name)
      [] type = "tap" -> Null
      [] type = "mas" ->
           LET apps == getMasApps(s)
               app == Find(apps, {i \in DOMAIN apps :
                                    ToLowerCase(apps[i].name) = ToLowerCase(name)})
           IN IF app = Undefined THEN Null ELSE app.version
      [] OTHER -> Null

(***************************************************************************)
(* generateLockFile: a fresh document filled from the four bulk queries.   *)
(***************************************************************************)
TapEntryOf(tap) ==
    Obj(SelectSeq(<<Member("url", tap.url),
               Member("commit", tap.commit),
               Member("official", tap.official)>>,
             LAMBDA m : Truthy(m.v)))

BrewEntryOf(formula) ==
    Obj(SelectSeq(<<Member("version", formula.version),
               Member("installed", formula.installed),
               Member("revision", formula.revision),
               Member("tap", formula.tap),
               Member("pinned", formula.pinned),
               Member("dependencies", formula.dependencies),
               Member("sha256", formula.sha256),
               Member("installed_as_dependency", formula.installed_as_dependency),
               Member("installed_on_request", formula.installed_on_request)>>,
             LAMBDA m : m.k = "version" \/ m.v # Undefined))

CaskEntryOf(cask) ==
    Obj(SelectSeq(<<Member("version", cask.version),
               Member("tap", cask.tap),
               Member("sha256", cask.sha256),
               Member("auto_updates", cask.auto_updates)>>,
             LAMBDA m : m.k = "version" \/ m.v # Undefined))

MasEntryOf(app) == Obj(<<Member("id", app.id), Member("version", app.version)>>)

\* for (const m of members) section[m.k] = m.v
RECURSIVE Assign(_, _)
Assign(ms, members) ==
    IF members = <<>> THEN ms
    ELSE Assign(Put(ms, Head(members).k, Head(members).v), Tail(members))

generateLockFile(s) ==
    LET taps == getAllTapsWithInfo(s)
        formulae == getAllInstalledFormulae(s)
        casks == getAllInstalledCasks(s)
        masApps == SelectSeq(getMasApps(s), LAMBDA a : a.id # Undefined)
    IN [version |-> createEmptyLockFile.version,
        tap |-> Assign(createEmptyLockFile.tap,
                  [i \in DOMAIN taps |-> Member(taps[i].name, TapEntryOf(taps[i]))]),
        brew |-> Assign(createEmptyLockFile.brew,
                  [i \in DOMAIN formulae |->
                     Member(formulae[i].name, BrewEntryOf(formulae[i]))]),
        cask |-> Assign(createEmptyLockFile.cask,
                  [i \in DOMAIN casks |-> Member(casks[i].name, CaskEntryOf(casks[i]))]),
        mas |-> Assign(createEmptyLockFile.mas,
                  [i \in DOMAIN masApps |->
                     Member(masApps[i].name, MasEntryOf(masApps[i]))])]

(***************************************************************************)
(* The inputs of the model: names, records and live systems.               *)
(***************************************************************************)
TapNames == {"homebrew/cask", "user/repo"}
PkgNames == {"git", "docker"}
MasNames == {"Xcode", "xcode"}

NamesOf(type) ==
    CASE type = "tap" -> TapNames
      [] type \in {"brew", "cask"} -> PkgNames
      [] type = "mas" -> MasNames

TapEntries ==
    {Obj(<<>>),
     Obj(<<Member("commit", Str("abc123"))>>),
     Obj(<<Member("url", Str("https://example.com/repo")),
           Member("official", Bool(FALSE))>>)}

BrewEntries ==
    {Obj(<<Member("version", Str("1.0"))>>),
     Obj(<<Member("version", Str("2.0"))>>),
     Obj(<<Member("version", Str("1.0")),
           Member("installed", Arr(<<Str("1.0"), Str("0.9")>>)),
           Member("revision", Num(1)),
           Member("pinned", Bool(TRUE))>>)}

CaskEntries ==
    {Obj(<<Member("version", Str("1.0"))>>),
     Obj(<<Member("version", Str("2.0")),
           Member("tap", Str("homebrew/cask")),
           Member("auto_updates", Bool(TRUE))>>)}

MasEntries ==
    {Obj(<<Member("id", Num(497799835)), Member("version", Str("1.0"))>>),
     Obj(<<Member("id", Num(497799835)), Member("version", Str("2.0"))>>)}

EntriesOf(type) ==
    CASE type = "tap" -> TapEntries
      [] type = "brew" -> BrewEntries
      [] type = "cask" -> CaskEntries
      [] type = "mas" -> MasEntries

\* one formula of `brew info --json=v2`
Formula(name, installed, linked, revision, tap, sha) ==
    [name |-> name, installed |-> installed, linked_keg |-> linked,
     revision |-> revision, tap |-> tap, pinned |-> revision > 0,
     dependencies |-> IF revision > 0 THEN <<"openssl">> ELSE <<>>,
     sha256 |-> sha]

\* one cask of `brew info --cask --json=v2`
Cask(token, installed, tap, sha, auto) ==
    [token |-> token, installed |-> installed, tap |-> tap,
     sha256 |-> sha, auto_updates |-> auto]

FormulaeStates ==
    {<<>>,
     <<Formula("git", <<Keg("1.0", FALSE, TRUE)>>, Str("1.0"), 1, "homebrew/core", Str("c0ffee"))>>,
     <<Formula("git", <<Keg("1.0", TRUE, FALSE), Keg("2.0", FALSE, TRUE)>>, Str("2.0"), 0, "", Undefined),
       Formula("docker", <<Keg("1.0", FALSE, TRUE)>>, Null, 0, "homebrew/core", Undefined)>>,
     <<Formula("git", <<>>, Null, 0, "homebrew/core", Undefined),
       Formula("docker", <<Keg("2.0", FALSE, FALSE)>>, Str("1.0"), 0, "homebrew/core", Undefined)>>}

CasksStates ==
    {<<>>,
     <<Cask("docker", Str("1.0"), "homebrew/cask", Str("beef"), Bool(TRUE))>>,
     <<Cask("docker", Null, "homebrew/cask", Null, Null),
       Cask("git", Str("2.0"), "", Null, Bool(FALSE))>>}

TapInfo(name, head, remote, official) ==
    [name |-> name, HEAD |-> head, remote |-> remote, official |-> official]

\* the registered taps: the names `brew tap` prints and what tap-info says
TapsStates ==
    {[taps |-> <<>>, tapInfo |-> Null],
     [taps |-> <<"homebrew/cask">>,
      tapInfo |-> Arr(<<TapInfo("homebrew/cask", Str("abc123"), "https://github.com/Homebrew/homebrew-cask", TRUE)>>)],
     [taps |-> <<"homebrew/cask", "user/repo">>,
      tapInfo |-> Arr(<<TapInfo("homebrew/cask", Undefined, "https://github.com/Homebrew/homebrew-cask", TRUE),
                        TapInfo("user/repo", Undefined, "https://example.com/repo", FALSE)>>)],
     [taps |-> <<"homebrew/cask", "user/repo">>, tapInfo |-> Null],
     \* tap-info exits with code 0 and its JSON has no element for user/repo
     [taps |-> <<"homebrew/cask", "user/repo">>,
      tapInfo |-> Arr(<<TapInfo("homebrew/cask", Str("abc123"), "https://github.com/Homebrew/homebrew-cask", TRUE)>>)]}

MasApp(id, name, version) == [id |-> id, name |-> name, version |-> version]

MasStates ==
    {<<>>,
     <<MasApp(497799835, "Xcode", "1.0")>>,
     <<MasApp(497799835, "Xcode", "2.0"), MasApp(12, "xcode", "1.0")>>}

System(io, f, c, tp, mo, m) ==
    [infoOk |-> io, formulae |-> f, casks |-> c,
     tapOk |-> TRUE, taps |-> tp.taps, tapInfo |-> tp.tapInfo,
     tapHead |-> [n \in TapNames |-> IF n = "user/repo" THEN Str("fedcba") ELSE Null],
     masOk |-> mo, masApps |-> m]

\* a system with something of every kind
FullSystem ==
    System(TRUE,
           <<Formula("git", <<Keg("1.0", TRUE, FALSE), Keg("2.0", FALSE, TRUE)>>, Str("2.0"), 0, "", Undefined),
             Formula("docker", <<Keg("1.0", FALSE, TRUE)>>, Null, 0, "homebrew/core", Undefined)>>,
           <<Cask("docker", Str("1.0"), "homebrew/cask", Str("beef"), Bool(TRUE))>>,
           [taps |-> <<"homebrew/cask", "user/repo">>, tapInfo |-> Null],
           TRUE,
           <<MasApp(497799835, "Xcode", "2.0"), MasApp(12, "xcode", "1.0")>>)

\* the live systems of the model: FullSystem with one part replaced
Systems ==
    {[FullSystem EXCEPT !.formulae = f] : f \in FormulaeStates}
    \cup {[FullSystem EXCEPT !.casks = c] : c \in CasksStates}
    \cup {[FullSystem EXCEPT !.taps = tp.taps, !.tapInfo = tp.tapInfo] : tp \in TapsStates}
    \cup {[FullSystem EXCEPT !.masApps = m] : m \in MasStates}
    \cup {[FullSystem EXCEPT !.infoOk = FALSE], [FullSystem EXCEPT !.masOk = FALSE]}

\* a system on which nothing is installed and every query succeeds
EmptySystem ==
    System(TRUE, <<>>, <<>>, [taps |-> <<>>, tapInfo |-> Null], TRUE, <<>>)

(***************************************************************************)
(* The operations on the document the caller holds                         *)
(***************************************************************************)
\* no bundleInstall run has started
NoReplay ==
    [pc |-> "idle", i |-> 0, strict |-> FALSE, doc |-> createEmptyLockFile,
     allSuccess |-> TRUE, log |-> <<>>, outcomes |-> <<>>, result |-> Null,
     again |-> FALSE, satisfied |-> FALSE]

NoCall ==
    [op |-> "none", type |-> "none", name |-> "", entry |-> Undefined,
     input |-> createEmptyLockFile, after |-> createEmptyLockFile]

Called(op, type, name, entry, input, effect) ==
    [op |-> op, type |-> type, name |-> name, entry |-> entry,
     input |-> input, after |-> effect.input]

Init ==
    /\ lockFile = createEmptyLockFile
    /\ call = NoCall
    /\ steps = 0
    /\ content = BlankText
    /\ parsed = Return(createEmptyLockFile)
    /\ sys = EmptySystem
    /\ checked = Null
    /\ replay = NoReplay
    /\ update = <<>>

\* lockFile = upsertX(lockFile, name, entry)
Apply(op, type, name, entry, effect) ==
    /\ steps < MaxOps
    /\ lockFile' = effect.result
    /\ call' = Called(op, type, name, entry, lockFile, effect)
    /\ steps' = steps + 1
    /\ UNCHANGED <<content, parsed, sys, checked, replay, update>>

UpsertTap ==
    \E name \in TapNames, entry \in TapEntries :
        Apply("upsert", "tap", name, entry, upsertTap(lockFile, name, entry))

UpsertBrew ==
    \E name \in PkgNames, entry \in BrewEntries :
        Apply("upsert", "brew", name, entry, upsertBrew(lockFile, name, entry))

UpsertCask ==
    \E name \in PkgNames, entry \in CaskEntries :
        Apply("upsert", "cask", name, entry, upsertCask(lockFile, name, entry))

UpsertMas ==
    \E name \in MasNames, entry \in MasEntries :
        Apply("upsert", "mas", name, entry, upsertMas(lockFile, name, entry))

Remove ==
    \E type \in PackageTypes :
        \E name \in NamesOf(type) :
            Apply("remove", type, name, Undefined, removeEntry(lockFile, type, name))

\* lockFile = await generateLockFile()
Generate ==
    \E s \in Systems :
        Apply("generate", "none", "", Undefined,
              Effect(generateLockFile(s), lockFile))

Next ==
    \/ UpsertTap
    \/ UpsertBrew
    \/ UpsertCask
    \/ UpsertMas
    \/ Remove
    \/ Generate

Spec == Init /\ [][Next]_vars

(***************************************************************************)
(* Claims about the document operations (specification Spec)               *)
(***************************************************************************)
\* the entries of a kind other than the one named `name` are the same in
\* the mappings m1 and m2
SameOthers(m1, m2, name) ==
    /\ Keys(m1) \ {name} = Keys(m2) \ {name}
    /\ \A n \in Keys(m1) \ {name} : Get(m1, n) = Get(m2, n)

\* C1: every document reachable from the empty document by upserts and
\* removes, or returned by generateLockFile, is read back from its own
\* serialization without an error and deeply equal: same format version
\* and the same four name-to-record mappings.
C1_RoundTrip ==
    LET back == parseLockFile(serializeLockFile(lockFile))
    IN /\ ~back.threw
       /\ back.value.version = lockFile.version
       /\ SameDoc(back.value, lockFile)

C1_Witness ==
    /\ call.op = "upsert"
    /\ \A type \in PackageTypes : lockFile[type] # <<>>
    /\ \E i \in DOMAIN lockFile.brew : HasKey(lockFile.brew[i].v.v, "revision")

\* C2: an upsert of (kind, name, record) returns a document in which only
\* the entry of that name in that kind can differ from the input; the format
\* version, the other entries of the kind and the other three mappings are
\* the input's, and the caller's input document is as it was before the call.
C2_UpsertFrame ==
    call.op = "upsert" =>
        /\ call.after = call.input
        /\ lockFile.version = call.input.version
        /\ \A type \in PackageTypes \ {call.type} : lockFile[type] = call.input[type]
        /\ SameOthers(lockFile[call.type], call.input[call.type], call.name)

C2_Witness ==
    /\ call.op = "upsert"
    /\ HasKey(call.input[call.type], call.name)
    /\ Get(call.input[call.type], call.name) # call.entry
    /\ Keys(call.input[call.type]) \ {call.name} # {}
    /\ \E type \in PackageTypes \ {call.type} : call.input[type] # <<>>

\* C3: a formula and a cask of the same name are independent entries: from
\* any reachable document, upserting formula x with r and cask x with r2, in
\* either order, gives a document whose formula mapping holds r and whose
\* cask mapping holds r2 for x, and removing one of the two leaves the other.
C3_KeyDisjointness ==
    \A x \in PkgNames, r \in BrewEntries, r2 \in CaskEntries :
        LET d1 == upsertCask(upsertBrew(lockFile, x, r).result, x, r2).result
            d2 == upsertBrew(upsertCask(lockFile, x, r2).result, x, r).result
            noBrew == removeEntry(d1, "brew", x).result
            noCask == removeEntry(d2, "cask", x).result
        IN /\ Get(d1.brew, x) = r /\ Get(d1.cask, x) = r2
           /\ Get(d2.brew, x) = r /\ Get(d2.cask, x) = r2
           /\ ~HasKey(noBrew.brew, x) /\ Get(noBrew.cask, x) = r2
           /\ ~HasKey(noCask.cask, x) /\ Get(noCask.brew, x) = r

C3_Witness ==
    /\ call.op = "remove" /\ call.type = "brew"
    /\ HasKey(call.input.brew, call.name)
    /\ HasKey(lockFile.cask, call.name)
    /\ ~HasKey(lockFile.brew, call.name)

\* C4: upsert is idempotent: applying the same upsert to its own result
\* gives that result again, for every reachable document, kind, name and
\* record.
C4_UpsertIdempotent ==
    \A type \in PackageTypes :
        \A name \in NamesOf(type), entry \in EntriesOf(type) :
            LET once == upsert(lockFile, type, name, entry).result
            IN upsert(once, type, name, entry).result = once

C4_Witness ==
    /\ call.op = "upsert"
    /\ Len(call.input[call.type]) > 1
    /\ Get(call.input[call.type], call.name) = call.entry
    /\ lockFile = call.input

\* C5: remove(d, kind, name) returns d without the (kind, name) entry: the
\* other entries of the kind, the other kinds and the format version are
\* kept, and the result equals d when the entry is absent from d.
C5_Remove ==
    \A type \in PackageTypes :
        \A name \in NamesOf(type) :
            LET r == removeEntry(lockFile, type, name).result
            IN /\ ~HasKey(r[type], name)
               /\ Keys(r[type]) = Keys(lockFile[type]) \ {name}
               /\ SameOthers(r[type], lockFile[type], name)
               /\ \A other \in PackageTypes \ {type} : r[other] = lockFile[other]
               /\ r.version = lockFile.version
               /\ ~HasKey(lockFile[type], name) => r = lockFile

C5_Witness ==
    /\ call.op = "remove"
    /\ HasKey(call.input[call.type], call.name)
    /\ lockFile[call.type] # <<>>
    /\ \E other \in PackageTypes \ {call.type} :
         HasKey(lockFile[other], call.name)

\* C6: a kind's mapping holds at most one entry per name; an upsert of a
\* name that is present replaces its record and leaves the number of
\* entries of the kind unchanged.
C6_UniqueNames ==
    /\ \A type \in PackageTypes :
         \A name \in NamesOf(type) : Count(lockFile[type], name) <= 1
    /\ (call.op = "upsert" /\ HasKey(call.input[call.type], call.name)) =>
         /\ Get(lockFile[call.type], call.name) = call.entry
         /\ Len(lockFile[call.type]) = Len(call.input[call.type])

C6_Witness ==
    /\ call.op = "upsert" /\ call.type = "brew"
    /\ HasKey(call.input.brew, call.name)
    /\ Get(call.input.brew, call.name) # call.entry
    /\ Len(lockFile.brew) = 2

(***************************************************************************)
(* Reading a lock file that was written or edited by hand                  *)
(* (specification SpecParse)                                               *)
(***************************************************************************)
Absent == [t |-> "absent"]

\* the object with the properties of ms that are written at all
Written(ms) == Obj(SelectSeq(ms, LAMBDA m : m.v # Absent))

VersionWritten == {Absent, Num(1), Num(2), Null, Str("1")}

TapWritten ==
    {Absent, Null, Arr(<<>>), Obj(<<>>),
     Obj(<<Member("homebrew/cask", Obj(<<Member("commit", Str("abc123"))>>))>>),
     Obj(<<Member("homebrew/cask", Obj(<<Member("url", Num(7))>>))>>)}

BrewWritten ==
    {Absent, Str("git"),
     Obj(<<Member("git", Obj(<<Member("version", Str("1.0"))>>))>>),
     Obj(<<Member("git", Obj(<<Member("version", Str("1.0")),
                              Member("note", Str("edited by hand"))>>))>>),
     Obj(<<Member("git", Obj(<<>>))>>),
     Obj(<<Member("git", Obj(<<Member("version", Num(1))>>))>>),
     Obj(<<Member("git", Obj(<<Member("version", Str("1.0")),
                              Member("revision", Null)>>))>>),
     Obj(<<Member("git", Obj(<<Member("version", Str("2.0")),
                              Member("installed", Arr(<<Str("2.0")>>))>>)),
           Member("docker", Str("1.0"))>>)}

CaskWritten ==
    {Absent,
     Obj(<<Member("docker", Obj(<<Member("version", Str("1.0"))>>))>>),
     Obj(<<Member("docker", Obj(<<Member("tap", Str("homebrew/cask"))>>))>>)}

MasWritten ==
    {Absent,
     Obj(<<Member("Xcode", Obj(<<Member("id", Num(497799835)),
                                Member("version", Str("1.0"))>>))>>),
     Obj(<<Member("Xcode", Obj(<<Member("version", Str("1.0"))>>))>>),
     Obj(<<Member("Xcode", Obj(<<Member("id", Str("497799835")),
                                Member("version", Str("1.0"))>>))>>)}

\* the texts of the model
Texts ==
    {BlankText, InvalidText}
    \cup {Text(v, FALSE) : v \in {Null, Num(42), Str("brew.lock"), Arr(<<>>)}}
    \cup {Text(Written(<<Member("version", ver), Member("tap", tap),
                         Member("brew", brew), Member("cask", cask),
                         Member("mas", mas)>>), c) :
            ver \in VersionWritten, tap \in TapWritten, brew \in BrewWritten,
            cask \in CaskWritten, mas \in MasWritten, c \in BOOLEAN}

InitParse ==
    /\ content \in Texts
    /\ parsed = Null
    /\ lockFile = createEmptyLockFile
    /\ call = NoCall
    /\ steps = 0
    /\ sys = EmptySystem
    /\ checked = Null
    /\ replay = NoReplay
    /\ update = <<>>

\* parseLockFile(content)
ParseLockFile ==
    /\ parsed = Null
    /\ parsed' = parseLockFile(content)
    /\ UNCHANGED <<lockFile, call, steps, content, sys, checked, replay, update>>

NextParse == ParseLockFile

SpecParse == InitParse /\ [][NextParse]_vars

SectionSchema(type) ==
    CASE type = "tap" -> TapEntrySchema
      [] type = "brew" -> BrewEntrySchema
      [] type = "cask" -> CaskEntrySchema
      [] type = "mas" -> MasEntrySchema

\* x is a value of the type a schema property names
IsA(type, x) ==
    CASE type = "string[]" -> x.t = "array" /\ \A i \in DOMAIN x.v : x.v[i].t = "string"
      [] OTHER -> x.t = type

\* the record r written for a package is not one of the shape: it is no
\* object, lacks a required property or has a property of the wrong type
BadRecord(shape, r) ==
    \/ r.t # "object"
    \/ \E i \in DOMAIN shape :
         IF HasKey(r.v, shape[i].k)
         THEN ~IsA(shape[i].type, Get(r.v, shape[i].k))
         ELSE ~shape[i].optional

\* the top-level object v fails the shape validation parseLockFile runs: a
\* member that is absent or null is defaulted first and is not a failure
FailsValidation(v) ==
    \/ HasKey(v.v, "version") /\ Get(v.v, "version").t \notin {"number", "null"}
    \/ \E type \in PackageTypes :
         LET sec == Get(v.v, type)
         IN /\ sec.t \notin {"undefined", "null"}
            /\ \/ sec.t # "object"
               \/ \E i \in DOMAIN sec.v : BadRecord(SectionSchema(type), sec.v[i].v)

\* the record r with the properties the shape knows
Restricted(shape, r) ==
    Obj(SelectSeq(r.v, LAMBDA m : \E i \in DOMAIN shape : shape[i].k = m.k))

\* C7: parseLockFile never raises, and returns the empty document (format
\* version 1, four empty mappings) for every text that is blank or not
\* valid JSONC, that holds no object, or whose object fails shape validation.
C7_ParseNeverRaises ==
    parsed # Null =>
        /\ ~parsed.threw
        /\ (\/ content.syntax \in {"blank", "invalid"}
            \/ content.syntax = "json" /\ content.value.t # "object"
            \/ content.syntax = "json" /\ content.value.t = "object"
                 /\ FailsValidation(content.value))
           => parsed.value = createEmptyLockFile

C7_Witness ==
    /\ parsed # Null
    /\ content.syntax = "json" /\ content.value.t = "object"
    /\ Get(content.value.v, "version") = Num(2)
    /\ Get(content.value.v, "tap").t = "object" /\ Get(content.value.v, "tap").v # <<>>
    /\ ~BadRecord(TapEntrySchema, Get(content.value.v, "tap").v[1].v)
    /\ Get(content.value.v, "brew").t = "object"
    /\ BadRecord(BrewEntrySchema, Get(content.value.v, "brew").v[1].v)
    /\ parsed = Return(createEmptyLockFile)

\* the lock text holds an object that leaves out a section or the version
OmitsSome(c) ==
    /\ c.syntax = "json" /\ c.value.t = "object"
    /\ \E k \in PackageTypes \cup {"version"} : ~HasKey(c.value.v, k)

\* C8 as stated: when a syntactically valid text omits sections or the
\* version, each omitted section is the empty mapping and an omitted version
\* is 1, and every section and version that is present (written with a
\* value other than null) is kept exactly as written.
C8_AsStated ==
    (parsed # Null /\ OmitsSome(content)) =>
        /\ \A type \in PackageTypes :
             LET sec == Get(content.value.v, type)
             IN IF sec.t \in {"undefined", "null"}
                THEN ~HasKey(content.value.v, type) => parsed.value[type] = <<>>
                ELSE sec = Obj(parsed.value[type])
        /\ LET ver == Get(content.value.v, "version")
           IN IF ver.t \in {"undefined", "null"}
              THEN ~HasKey(content.value.v, "version") => parsed.value.version = 1
              ELSE ver = Num(parsed.value.version)

\* C8, amended: when such a text passes shape validation, each section that
\* is omitted or null is the empty mapping and a version that is omitted or
\* null is 1; every other section keeps the names as written, in their
\* order, each with its record restricted to the properties of the schema,
\* and a written version number is kept.
C8_PartialDefaults ==
    (parsed # Null /\ OmitsSome(content) /\ ~FailsValidation(content.value)) =>
        /\ ~parsed.threw
        /\ \A type \in PackageTypes :
             LET sec == Get(content.value.v, type)
                 got == parsed.value[type]
             IN IF sec.t \in {"undefined", "null"}
                THEN got = <<>>
                ELSE /\ Len(got) = Len(sec.v)
                     /\ \A i \in DOMAIN got :
                          /\ got[i].k = sec.v[i].k
                          /\ DeepEq(got[i].v, Restricted(SectionSchema(type), sec.v[i].v))
        /\ IF Get(content.value.v, "version").t \in {"undefined", "null"}
           THEN parsed.value.version = 1
           ELSE Num(parsed.value.version) = Get(content.value.v, "version")

C8_Witness ==
    /\ parsed # Null /\ OmitsSome(content) /\ ~FailsValidation(content.value)
    /\ Get(content.value.v, "version") = Num(2)
    /\ ~HasKey(content.value.v, "cask") /\ ~HasKey(content.value.v, "mas")
    /\ parsed.value.tap # <<>>
    /\ parsed.value.brew # <<>>
    /\ parsed.value.cask = <<>>

(***************************************************************************)
(* The drift check (specification SpecCheck)                               *)
(***************************************************************************)
MissingFile == [syntax |-> "missing", comments |-> FALSE, value |-> Null]

\* readLockFile: the empty document when the file does not exist
readLockFile(file) ==
    IF file.syntax = "missing" THEN createEmptyLockFile
    ELSE parseLockFile(file).value


Mismatch(name, expected, actual) ==
    [name |-> name, expected |-> expected, actual |-> actual]

\* the loop of checkLockFile with `actualVersion &&` as its first test
SectionMismatches_InstalledOnly(doc, s, type) ==
    LET drift == SelectSeq(doc[type],
                    LAMBDA m : /\ getPackageVersion(s, type, m.k) # Null
                               /\ getPackageVersion(s, type, m.k) # Get(m.v.v, "version"))
    IN [i \in DOMAIN drift |->
          Mismatch(drift[i].k, Get(drift[i].v.v, "version"),
                   getPackageVersion(s, type, drift[i].k))]

\* one loop of checkLockFile: the mismatches of the entries of a kind
SectionMismatches(doc, s, type) ==
    LET drift == SelectSeq(doc[type],
                    LAMBDA m : getPackageVersion(s, type, m.k) # Get(m.v.v, "version"))
    IN [i \in DOMAIN drift |->
          Mismatch(drift[i].k, Get(drift[i].v.v, "version"),
                   getPackageVersion(s, type, drift[i].k))]

\* the getPackageVersion calls of one loop, in order
SectionQueries(doc, type) ==
    [i \in DOMAIN doc[type] |-> [type |-> type, name |-> doc[type][i].k]]

\* checkLockFile with a fourth loop, over lockFile.tap, before the others
checkLockFile_QueriesTaps(file, s) ==
    LET doc == readLockFile(file)
        mismatches == SectionMismatches(doc, s, "brew")
                      \o SectionMismatches(doc, s, "cask")
                      \o SectionMismatches(doc, s, "mas")
    IN [matches |-> Len(mismatches) = 0,
        mismatches |-> mismatches,
        queries |-> SectionQueries(doc, "tap") \o SectionQueries(doc, "brew")
                    \o SectionQueries(doc, "cask") \o SectionQueries(doc, "mas")]

\* checkLockFile(lockFilePath) on the live system s
checkLockFile(file, s) ==
    LET doc == readLockFile(file)
        mismatches == SectionMismatches(doc, s, "brew")
                      \o SectionMismatches(doc, s, "cask")
                      \o SectionMismatches(doc, s, "mas")
    IN [matches |-> Len(mismatches) = 0,
        mismatches |-> mismatches,
        queries |-> SectionQueries(doc, "brew") \o SectionQueries(doc, "cask")
                    \o SectionQueries(doc, "mas")]

\* the documents whose files are checked
RECURSIVE Build(_, _)
Build(doc, entries) ==
    IF entries = <<>> THEN doc
    ELSE Build(upsert(doc, Head(entries)[1], Head(entries)[2],
                      Obj(<<Member("version", Str(Head(entries)[3]))>>)).result,
               Tail(entries))

CheckDocs ==
    {Build(upsertTap(createEmptyLockFile, "homebrew/cask", Obj(<<>>)).result,
           b \o c) :
        b \in {<<>>, <<<<"brew", "git", "1.0">>>>, <<<<"brew", "docker", "1.0">>>>,
               <<<<"brew", "git", "2.0">>, <<"brew", "docker", "1.0">>>>},
        c \in {<<>>, <<<<"cask", "docker", "1.0">>>>, <<<<"cask", "docker", "2.0">>>>,
               <<<<"cask", "git", "2.0">>, <<"cask", "docker", "1.0">>>>}}

MasDocs(doc) ==
    {doc,
     upsertMas(doc, "Xcode",
               Obj(<<Member("id", Num(497799835)), Member("version", Str("2.0"))>>)).result,
     upsertMas(upsertMas(doc, "xcode",
                 Obj(<<Member("id", Num(12)), Member("version", Str("1.0"))>>)).result,
               "Xcode",
               Obj(<<Member("id", Num(497799835)), Member("version", Str("2.0"))>>)).result}

\* a lock file edited by hand: the version of git is the empty string
EditedDoc ==
    upsertCask(upsertBrew(createEmptyLockFile, "git",
                          Obj(<<Member("version", Str(""))>>)).result,
               "docker", Obj(<<Member("version", Str("1.0"))>>)).result

CheckFiles ==
    {MissingFile, InvalidText, serializeLockFile(createEmptyLockFile),
     serializeLockFile(EditedDoc)}
    \cup {serializeLockFile(d) : d \in UNION {MasDocs(doc) : doc \in CheckDocs}}

(***************************************************************************)
(* The commands that write the lock file: `lock` (handleLock) and the lock *)
(* update after a passed-through command (updateLockFile).                 *)
(***************************************************************************)
\* writeLockFile: validate, serialize, write; the text written, or a ZodError
writeLockFile(doc) ==
    LET validated == LockFileSchemaParse([version |-> Num(doc.version),
                                          tap |-> Obj(doc.tap),
                                          brew |-> Obj(doc.brew),
                                          cask |-> Obj(doc.cask),
                                          mas |-> Obj(doc.mas)])
    IN IF validated.threw THEN Throw
       ELSE Return(serializeLockFile(validated.value))

\* handleLock: generate, then write
handleLock(s) == writeLockFile(generateLockFile(s))

\* for (const pkg of packages) { version = getPackageVersion; if (version) upsert }
RECURSIVE UpsertInstalled(_, _, _, _)
UpsertInstalled(doc, s, type, packages) ==
    IF packages = <<>> THEN doc
    ELSE LET pkg == Head(packages)
             version == getPackageVersion(s, type, pkg)
             entry == Obj(<<Member("version", version)>>)
             next == IF ~Truthy(version) THEN doc
                     ELSE IF type = "cask" THEN upsertCask(doc, pkg, entry).result
                     ELSE upsertBrew(doc, pkg, entry).result
         IN UpsertInstalled(next, s, type, Tail(packages))

\* for (const pkg of packages) removeCask / removeBrew
RECURSIVE RemoveUninstalled(_, _, _)
RemoveUninstalled(doc, type, packages) ==
    IF packages = <<>> THEN doc
    ELSE RemoveUninstalled(IF type = "cask" THEN removeCask(doc, Head(packages)).result
                           ELSE removeBrew(doc, Head(packages)).result,
                           type, Tail(packages))

\* for (const tapName of packages) upsertTap(lockFile, tapName, { url, commit })
RECURSIVE UpsertTapped(_, _, _)
UpsertTapped(doc, tapInfos, packages) ==
    IF packages = <<>> THEN doc
    ELSE LET tapName == Head(packages)
             tapInfo == Find(tapInfos, {i \in DOMAIN tapInfos : tapInfos[i].name = tapName})
             entry == Obj(<<Member("url", IF tapInfo = Undefined THEN Undefined
                                          ELSE tapInfo.url),
                            Member("commit", IF tapInfo = Undefined THEN Undefined
                                             ELSE tapInfo.commit)>>)
         IN UpsertTapped(upsertTap(doc, tapName, entry).result, tapInfos, Tail(packages))

\* for (const tap of packages) removeTap
RECURSIVE RemoveUntapped(_, _)
RemoveUntapped(doc, packages) ==
    IF packages = <<>> THEN doc
    ELSE RemoveUntapped(removeTap(doc, Head(packages)).result, Tail(packages))

\* the upgrade without package names that keeps the document it read
Regenerated_Never(doc, s, command, packages) == doc

\* if (command === "upgrade" && packages.length === 0) lockFile = generateLockFile()
Regenerated(doc, s, command, packages) ==
    IF command = "upgrade" /\ packages = <<>> THEN generateLockFile(s) ELSE doc

\* updateLockFile(command, packages, isCask): the text written, or a ZodError
updateLockFile(file, s, command, packages, isCask) ==
    LET type == IF isCask THEN "cask" ELSE "brew"
        read == readLockFile(file)
        updated ==
          CASE command \in {"install", "reinstall", "upgrade"} ->
                 Regenerated(UpsertInstalled(read, s, type, packages), s, command, packages)
            [] command \in {"uninstall", "remove", "rm"} ->
                 RemoveUninstalled(read, type, packages)
            [] command = "tap" -> UpsertTapped(read, getAllTapsWithInfo(s), packages)
            [] command = "untap" -> RemoveUntapped(read, packages)
            [] OTHER -> read
    IN writeLockFile(updated)

\* the commands of the model: command, packages, isCask
Commands ==
    {<<"upgrade", <<>>, FALSE>>,
     <<"upgrade", <<"git">>, FALSE>>,
     <<"install", <<"docker", "git">>, TRUE>>,
     <<"uninstall", <<"git">>, FALSE>>,
     <<"tap", <<"user/repo">>, FALSE>>,
     <<"untap", <<"homebrew/cask">>, FALSE>>}

\* the file after a write that may have thrown before Bun.write
FileAfter(file, w) == IF w.threw THEN file ELSE w.value

InitCheck ==
    /\ content \in CheckFiles
    /\ sys \in Systems \cup {EmptySystem}
    /\ checked = Null
    /\ replay = NoReplay
    /\ parsed = Null
    /\ lockFile = createEmptyLockFile
    /\ call = NoCall
    /\ steps = 0
    /\ update = <<>>

\* brewlock lock
HandleLock ==
    /\ checked = Null
    /\ call = NoCall
    /\ content' = FileAfter(content, handleLock(sys))
    /\ call' = [NoCall EXCEPT !.op = "lock", !.input = readLockFile(content)]
    /\ UNCHANGED <<lockFile, steps, parsed, sys, checked, replay, update>>

\* the lock update after a passed-through command that succeeded
UpdateLockFile ==
    /\ checked = Null
    /\ call = NoCall
    /\ \E c \in Commands :
         /\ content' = FileAfter(content, updateLockFile(content, sys, c[1], c[2], c[3]))
         /\ call' = [NoCall EXCEPT !.op = c[1], !.type = IF c[3] THEN "cask" ELSE "brew",
                                   !.entry = [t |-> "packages", v |-> c[2]],
                                   !.input = readLockFile(content)]
    /\ UNCHANGED <<lockFile, steps, parsed, sys, checked, replay, update>>

\* await checkLockFile(path)
CheckLockFile ==
    /\ checked = Null
    /\ checked' = checkLockFile(content, sys)
    /\ UNCHANGED <<lockFile, call, steps, content, parsed, sys, replay, update>>

NextCheck ==
    \/ HandleLock
    \/ UpdateLockFile
    \/ CheckLockFile

SpecCheck == InitCheck /\ [][NextCheck]_vars

\* the formula, cask and store-app entries of doc whose live version is
\* absent or differs from the recorded one
Recorded(doc, e) == Get(Get(doc[e[1]], e[2]).v, "version")

Live(e) == getPackageVersion(sys, e[1], e[2])

Drifting(doc) ==
    {e \in {"brew", "cask", "mas"} \X (PkgNames \cup MasNames) :
        /\ HasKey(doc[e[1]], e[2])
        /\ (Live(e) = Null \/ Live(e) # Recorded(doc, e))}

\* the record the check is to return for a drifting entry
Expected(doc, e) == Mismatch(e[2], Recorded(doc, e), Live(e))

\* C9: the mismatch list holds exactly one record {name, expected, actual}
\* for each formula, cask and store-app entry whose live version is absent
\* or differs from the recorded one (expected: the recorded version; actual:
\* the live version, null when there is none) and nothing else; no tap is
\* queried; matches is true exactly when the list is empty.
C9_DriftCheck ==
    checked # Null =>
        LET doc == readLockFile(content)
            list == checked.mismatches
        IN /\ Len(list) = Cardinality(Drifting(doc))
           /\ \A e \in Drifting(doc) :
                Cardinality({i \in DOMAIN list : list[i] = Expected(doc, e)})
                  = Cardinality({f \in Drifting(doc) : Expected(doc, f) = Expected(doc, e)})
           /\ \A i \in DOMAIN list : \E e \in Drifting(doc) : list[i] = Expected(doc, e)
           /\ \A i \in DOMAIN checked.queries : checked.queries[i].type # "tap"
           /\ Len(checked.queries) = Len(doc.brew) + Len(doc.cask) + Len(doc.mas)
           /\ checked.matches <=> list = <<>>

C9_Witness ==
    /\ checked # Null
    /\ readLockFile(content).tap # <<>>
    /\ \E i \in DOMAIN checked.mismatches : checked.mismatches[i].actual = Null
    /\ \E i \in DOMAIN checked.mismatches : checked.mismatches[i].actual # Null
    /\ Len(checked.mismatches) < Len(checked.queries)
    /\ ~checked.matches

\* C10: the mismatch records tell the entries they refer to apart: two
\* different drifting entries, such as a formula and a cask of the same name,
\* never yield equal records.
C10_RecordsToldApart ==
    checked # Null =>
        \A i, j \in DOMAIN checked.mismatches :
            i # j => checked.mismatches[i] # checked.mismatches[j]

\* C11: on a document with no formula, cask or store-app entry the check
\* returns matches true and an empty mismatch list and issues no live-version
\* query; a lock file that does not exist or is malformed is read as the
\* empty document and gives the same result.
C11_EmptyDocumentCheck ==
    checked # Null =>
        LET doc == readLockFile(content)
        IN /\ content.syntax \in {"missing", "invalid"} => SameDoc(doc, createEmptyLockFile)
           /\ (doc.brew = <<>> /\ doc.cask = <<>> /\ doc.mas = <<>>) =>
                /\ checked.matches
                /\ checked.mismatches = <<>>
                /\ checked.queries = <<>>

C11_Witness ==
    /\ checked # Null
    /\ content.syntax = "json"
    /\ readLockFile(content).tap # <<>>
    /\ readLockFile(content).brew = <<>>
    /\ readLockFile(content).cask = <<>>
    /\ readLockFile(content).mas = <<>>
    /\ sys = FullSystem
    /\ checked.matches

\* the names a bulk query of the query interface reports
ReportedNames(q) == {q[i].name : i \in DOMAIN q}

\* section ms holds exactly one entry for every name of names and no other
ExactlyOnePer(ms, names) ==
    /\ {ms[i].k : i \in DOMAIN ms} = names
    /\ \A n \in names : Count(ms, n) = 1

\* the document is a snapshot of what the query interface reports on sys
IsSnapshot(doc) ==
    /\ doc.version = 1
    /\ ExactlyOnePer(doc.tap, ReportedNames(getAllTapsWithInfo(sys)))
    /\ ExactlyOnePer(doc.brew, ReportedNames(getAllInstalledFormulae(sys)))
    /\ ExactlyOnePer(doc.cask, ReportedNames(getAllInstalledCasks(sys)))
    /\ ExactlyOnePer(doc.mas, ReportedNames(getMasApps(sys)))

\* the last command wrote a full snapshot: `lock`, or `upgrade` of everything
WroteSnapshot ==
    \/ call.op = "lock"
    \/ call.op = "upgrade" /\ call.entry.v = <<>>

\* C12: generateLockFile returns a document of format version 1 holding
\* exactly one entry for every tap, installed formula, installed cask and
\* store app the query interface reports and no other entry; nothing of the
\* previous lock document survives, and the file written by an upgrade
\* without package names equals that snapshot.
C12_FullSnapshot ==
    /\ IsSnapshot(generateLockFile(sys))
    /\ WroteSnapshot =>
         /\ IsSnapshot(readLockFile(content))
         /\ SameDoc(readLockFile(content), generateLockFile(sys))

C12_Witness ==
    /\ call.op = "upgrade"
    /\ call.entry.v = <<>>
    /\ HasKey(call.input.cask, "git")
    /\ HasKey(call.input.brew, "git")
    /\ ~HasKey(readLockFile(content).cask, "git")
    /\ ~HasKey(readLockFile(content).brew, "git")
    /\ readLockFile(content).tap # <<>>
    /\ readLockFile(content).brew # <<>>
    /\ readLockFile(content).cask # <<>>
    /\ readLockFile(content).mas # <<>>

\* C13: with the live system unchanged, the check of a lock file that was
\* just written from generateLockFile returns matches true: every recorded
\* version equals what the per-package query returns for that name and kind.
C13_GenerateThenCheck ==
    (checked # Null /\ WroteSnapshot) => checked.matches

(***************************************************************************)
(* bundleInstall: the replay of a lock file onto the live system           *)
(* (specification SpecReplay).  One step of the model is one iteration of  *)
(* one of the four loops: the call of installTap, installBrew, installCask *)
(* or installMas for one entry.  The log holds, in order, every external   *)
(* call and warning of the run, each with the kind and name of the entry   *)
(* it was made for.                                                        *)
(***************************************************************************)
\* the versions an install may leave on the system
Versions == {"1.0", "2.0"}

\* how a spawned command ends: exit code 0, another exit code, or
\* Bun.spawn throwing
Exits == {"exit0", "exit1", "spawnError"}

\* String(n) as its decimal digits
RECURSIVE String(_)
String(n) == IF n < 10 THEN <<n>> ELSE Append(String(n \div 10), n % 10)

Event(kind, type, name, cmd, args, id) ==
    [kind |-> kind, type |-> type, name |-> name, cmd |-> cmd, args |-> args, id |-> id,
     exit |-> "none"]

\* the spawned command of event e ended with `exit`
Ended(e, exit) == [e EXCEPT !.exit = exit]

\* getAllTaps() / getPackageVersion(type, name) made for an entry
QueryEvent(type, name) == Event("query", type, name, "brew", <<>>, <<>>)

\* console.warn of a version mismatch
WarnEvent(type, name) == Event("warn", type, name, "", <<>>, <<>>)

\* executeBrewCommandStreaming and Bun.spawn catch a spawn error: success
\* is exitCode === 0
Succeeded(exit) == exit = "exit0"

\* the live system after `brew tap name` exited with code 0
Tapped(s, name) ==
    IF \E i \in DOMAIN s.taps : s.taps[i] = name THEN s
    ELSE [s EXCEPT !.taps = Append(s.taps, name)]

\* the live system after an install of name exited with code 0 and left
\* version v linked
Installed(s, type, name, id, v) ==
    CASE type = "brew" ->
           [s EXCEPT !.formulae =
              SelectSeq(s.formulae, LAMBDA f : f.name # name)
              \o <<Formula(name, <<Keg(v, FALSE, TRUE)>>, Str(v), 0, "homebrew/core", Undefined)>>]
      [] type = "cask" ->
           [s EXCEPT !.casks =
              SelectSeq(s.casks, LAMBDA c : c.token # name)
              \o <<Cask(name, Str(v), "homebrew/cask", Null, Null)>>]
      [] type = "mas" ->
           [s EXCEPT !.masApps =
              SelectSeq(s.masApps, LAMBDA a : a.id # id) \o <<MasApp(id, name, v)>>]

\* what one install function did: its return value, its calls, the system
Did(success, events, s) ==
    [success |-> success, events |-> events, sys |-> s, threw |-> FALSE]

\* an install function that let an exception escape after `events`
Raised(events, s) == [Did(FALSE, events, s) EXCEPT !.threw = TRUE]

\* the completion of a bundleInstall whose promise is rejected
Rejected == [t |-> "rejected"]

\* installTap that never passes the recorded URL
installTap_NoUrl(name, entry, s, exit) ==
    LET taps == getAllTaps(s)
        query == QueryEvent("tap", name)
    IN IF \E i \in DOMAIN taps : taps[i] = name
       THEN Did(TRUE, <<query>>, s)
       ELSE Did(Succeeded(exit),
                <<query, Ended(Event("register", "tap", name, "brew", <<"tap", name>>, <<>>), exit)>>,
                IF Succeeded(exit) THEN Tapped(s, name) ELSE s)

\* installTap without the test `taps.includes(name)`
installTap_AlwaysRegisters(name, entry, s, exit) ==
    LET url == Get(entry.v, "url")
        args == IF Truthy(url) THEN <<"tap", name, url.v>> ELSE <<"tap", name>>
    IN Did(Succeeded(exit),
           <<QueryEvent("tap", name),
             Ended(Event("register", "tap", name, "brew", args, <<>>), exit)>>,
           IF Succeeded(exit) THEN Tapped(s, name) ELSE s)

\* installTap(name, entry, verbose)
installTap(name, entry, s, exit) ==
    LET taps == getAllTaps(s)
        url == Get(entry.v, "url")
        args == IF Truthy(url) THEN <<"tap", name, url.v>> ELSE <<"tap", name>>
        query == QueryEvent("tap", name)
    IN IF \E i \in DOMAIN taps : taps[i] = name
       THEN Did(TRUE, <<query>>, s)
       ELSE Did(Succeeded(exit),
                <<query, Ended(Event("register", "tap", name, "brew", args, <<>>), exit)>>,
                IF Succeeded(exit) THEN Tapped(s, name) ELSE s)

\* the body without its first test `currentVersion === entry.version`
InstallVersioned_NoSkip(type, name, entry, strict, s, install, exit, v) ==
    LET currentVersion == getPackageVersion(s, type, name)
        query == QueryEvent(type, name)
        warn == WarnEvent(type, name)
        id == IF type = "mas" THEN Get(entry.v, "id").v ELSE 0
        after == IF Succeeded(exit) THEN Installed(s, type, name, id, v) ELSE s
    IN IF currentVersion # Null /\ strict THEN Did(FALSE, <<query, warn>>, s)
       ELSE IF currentVersion # Null
            THEN Did(Succeeded(exit), <<query, warn, Ended(install, exit)>>, after)
       ELSE Did(Succeeded(exit), <<query, Ended(install, exit)>>, after)

\* the body without `if (strict) return false` after the warning
InstallVersioned_WarnOnly(type, name, entry, strict, s, install, exit, v) ==
    LET currentVersion == getPackageVersion(s, type, name)
        version == Get(entry.v, "version")
        query == QueryEvent(type, name)
        warn == WarnEvent(type, name)
        id == IF type = "mas" THEN Get(entry.v, "id").v ELSE 0
        after == IF Succeeded(exit) THEN Installed(s, type, name, id, v) ELSE s
    IN IF currentVersion = version THEN Did(TRUE, <<query>>, s)
       ELSE IF currentVersion # Null
            THEN Did(Succeeded(exit), <<query, warn, Ended(install, exit)>>, after)
       ELSE Did(Succeeded(exit), <<query, Ended(install, exit)>>, after)

\* the body with the strict test `currentVersion !== entry.version` alone,
\* so that an absent version fails in strict mode too
InstallVersioned_AbsentIsMismatch(type, name, entry, strict, s, install, exit, v) ==
    LET currentVersion == getPackageVersion(s, type, name)
        version == Get(entry.v, "version")
        query == QueryEvent(type, name)
        warn == WarnEvent(type, name)
        id == IF type = "mas" THEN Get(entry.v, "id").v ELSE 0
        after == IF Succeeded(exit) THEN Installed(s, type, name, id, v) ELSE s
    IN IF currentVersion = version THEN Did(TRUE, <<query>>, s)
       ELSE IF strict THEN Did(FALSE, <<query, warn>>, s)
       ELSE Did(Succeeded(exit), <<query, warn, Ended(install, exit)>>, after)

\* the body shared by installBrew, installCask and installMas: query,
\* compare, warn, and run the command `install`
InstallVersioned(type, name, entry, strict, s, install, exit, v) ==
    LET currentVersion == getPackageVersion(s, type, name)
        version == Get(entry.v, "version")
        query == QueryEvent(type, name)
        warn == WarnEvent(type, name)
        id == IF type = "mas" THEN Get(entry.v, "id").v ELSE 0
        after == IF Succeeded(exit) THEN Installed(s, type, name, id, v) ELSE s
    IN IF currentVersion = version THEN Did(TRUE, <<query>>, s)
       ELSE IF currentVersion # Null /\ strict THEN Did(FALSE, <<query, warn>>, s)
       ELSE IF currentVersion # Null
            THEN Did(Succeeded(exit), <<query, warn, Ended(install, exit)>>, after)
       ELSE Did(Succeeded(exit), <<query, Ended(install, exit)>>, after)

\* installBrew that removes a mismatched formula before it installs
installBrew_UninstallsFirst(name, entry, strict, s, exit, v) ==
    LET did == InstallVersioned("brew", name, entry, strict, s,
                                Event("install", "brew", name, "brew", <<"install", name>>, <<>>),
                                exit, v)
        n == Len(did.events)
        uninstall == Ended(Event("uninstall", "brew", name, "brew", <<"uninstall", name>>, <<>>),
                           "exit0")
    IN IF did.events[n].kind = "install" /\ n = 3
       THEN [did EXCEPT !.events = <<did.events[1], did.events[2], uninstall, did.events[3]>>]
       ELSE did

\* installBrew(name, entry, strict, verbose)
installBrew(name, entry, strict, s, exit, v) ==
    InstallVersioned("brew", name, entry, strict, s,
                     Event("install", "brew", name, "brew", <<"install", name>>, <<>>),
                     exit, v)

\* installCask that runs a failed install once more
installCask_RetriesOnce(name, entry, strict, s, exit, v) ==
    LET did == InstallVersioned("cask", name, entry, strict, s,
                                Event("install", "cask", name, "brew",
                                      <<"install", "--cask", name>>, <<>>),
                                exit, v)
        n == Len(did.events)
    IN IF did.events[n].kind = "install" /\ ~Succeeded(exit)
       THEN [did EXCEPT !.events = Append(did.events, did.events[n])]
       ELSE did

\* installCask running `brew install name`, without the --cask flag
installCask_NoFlag(name, entry, strict, s, exit, v) ==
    InstallVersioned("cask", name, entry, strict, s,
                     Event("install", "cask", name, "brew", <<"install", name>>, <<>>),
                     exit, v)

\* installCask(name, entry, strict, verbose)
installCask(name, entry, strict, s, exit, v) ==
    InstallVersioned("cask", name, entry, strict, s,
                     Event("install", "cask", name, "brew", <<"install", "--cask", name>>, <<>>),
                     exit, v)

\* installMas without try / catch around Bun.spawn
installMas_NoCatch(name, entry, strict, s, exit, v) ==
    LET did == InstallVersioned("mas", name, entry, strict, s,
                                Event("install", "mas", name, "mas", <<"install">>,
                                      String(Get(entry.v, "id").v)),
                                exit, v)
    IN IF exit = "spawnError" /\ did.events[Len(did.events)].kind = "install"
       THEN Raised(did.events, s)
       ELSE did

\* installMas(name, entry, strict, verbose)
installMas(name, entry, strict, s, exit, v) ==
    InstallVersioned("mas", name, entry, strict, s,
                     Event("install", "mas", name, "mas", <<"install">>,
                           String(Get(entry.v, "id").v)),
                     exit, v)

\* the loops in the order brew, tap, cask, mas
Phases_BrewFirst == <<"brew", "tap", "cask", "mas">>

\* the order of the four loops of bundleInstall
Phases == <<"tap", "brew", "cask", "mas">>

PhaseRank(type) == CHOOSE r \in DOMAIN Phases : Phases[r] = type

\* the loop and index of the first iteration at or after (rank, i), or
\* "done" when every loop is exhausted
RECURSIVE Position(_, _, _)
Position(doc, rank, i) ==
    IF rank > Len(Phases) THEN [pc |-> "done", i |-> 0]
    ELSE IF i <= Len(doc[Phases[rank]]) THEN [pc |-> Phases[rank], i |-> i]
    ELSE Position(doc, rank + 1, 1)

\* the per-entry result kept for the claims: kind, name and success
Outcome(type, name, success) == [type |-> type, name |-> name, success |-> success]

\* the iteration without `if (strict) return false`: the loops always run
\* to the end
AfterEntry_NeverReturnsEarly(r, type, name, did) ==
    LET allSuccess == r.allSuccess /\ did.success
        pos == Position(r.doc, PhaseRank(type), r.i + 1)
    IN [r EXCEPT !.allSuccess = allSuccess,
                 !.log = r.log \o did.events,
                 !.outcomes = Append(r.outcomes, Outcome(type, name, did.success)),
                 !.pc = pos.pc, !.i = pos.i,
                 !.result = IF pos.pc = "done" THEN Bool(allSuccess) ELSE Null]

\* the iteration that returns false on any failure, strict or not
AfterEntry_ReturnsOnFailure(r, type, name, did) ==
    LET allSuccess == r.allSuccess /\ did.success
        pos == Position(r.doc, PhaseRank(type), r.i + 1)
        base == [r EXCEPT !.allSuccess = allSuccess,
                          !.log = r.log \o did.events,
                          !.outcomes = Append(r.outcomes, Outcome(type, name, did.success))]
    IN IF ~did.success
       THEN [base EXCEPT !.pc = "done", !.i = 0, !.result = Bool(FALSE)]
       ELSE [base EXCEPT !.pc = pos.pc, !.i = pos.i,
                         !.result = IF pos.pc = "done" THEN Bool(allSuccess) ELSE Null]

\* the iteration with `allSuccess = success` in place of the conditional
AfterEntry_LastWins(r, type, name, did) ==
    LET pos == Position(r.doc, PhaseRank(type), r.i + 1)
        base == [r EXCEPT !.allSuccess = did.success,
                          !.log = r.log \o did.events,
                          !.outcomes = Append(r.outcomes, Outcome(type, name, did.success))]
    IN IF ~did.success /\ r.strict
       THEN [base EXCEPT !.pc = "done", !.i = 0, !.result = Bool(FALSE)]
       ELSE [base EXCEPT !.pc = pos.pc, !.i = pos.i,
                         !.result = IF pos.pc = "done" THEN Bool(did.success) ELSE Null]

\* the run after the iteration for entry (type, name) did `did`:
\* if (!success) { allSuccess = false; if (strict) return false; }
\* and `return allSuccess` after the last loop
AfterEntry(r, type, name, did) ==
    LET allSuccess == r.allSuccess /\ did.success
        pos == Position(r.doc, PhaseRank(type), r.i + 1)
        base == [r EXCEPT !.allSuccess = allSuccess,
                          !.log = r.log \o did.events,
                          !.outcomes = Append(r.outcomes, Outcome(type, name, did.success))]
    IN IF did.threw
       THEN [base EXCEPT !.pc = "done", !.i = 0, !.result = Rejected]
       ELSE IF ~did.success /\ r.strict
       THEN [base EXCEPT !.pc = "done", !.i = 0, !.result = Bool(FALSE)]
       ELSE [base EXCEPT !.pc = pos.pc, !.i = pos.i,
                         !.result = IF pos.pc = "done" THEN Bool(allSuccess) ELSE Null]

\* bundleInstall whose `No packages in lock file` branch returns false
Started_EmptyFails(file, strict) ==
    LET doc == readLockFile(file)
        pos == Position(doc, 1, 1)
    IN IF doc.tap = <<>> /\ doc.brew = <<>> /\ doc.cask = <<>> /\ doc.mas = <<>>
       THEN [NoReplay EXCEPT !.pc = "done", !.strict = strict, !.doc = doc,
                             !.result = Bool(FALSE)]
       ELSE [NoReplay EXCEPT !.pc = pos.pc, !.i = pos.i, !.strict = strict, !.doc = doc]

\* bundleInstall up to its first loop: read the lock file, return true when
\* the four sections are empty
Started(file, strict) ==
    LET doc == readLockFile(file)
        pos == Position(doc, 1, 1)
    IN IF doc.tap = <<>> /\ doc.brew = <<>> /\ doc.cask = <<>> /\ doc.mas = <<>>
       THEN [NoReplay EXCEPT !.pc = "done", !.strict = strict, !.doc = doc,
                             !.result = Bool(TRUE)]
       ELSE [NoReplay EXCEPT !.pc = pos.pc, !.i = pos.i, !.strict = strict, !.doc = doc]

\* the lock files replayed
ReplayDocs ==
    LET e == createEmptyLockFile
        url == Obj(<<Member("url", Str("https://example.com/repo"))>>)
        ver(v) == Obj(<<Member("version", Str(v))>>)
        app(v) == Obj(<<Member("id", Num(497799835)), Member("version", Str(v))>>)
        taps == upsertTap(upsertTap(e, "homebrew/cask", Obj(<<>>)).result, "user/repo", url).result
    IN {e,
        upsertMas(upsertCask(upsertBrew(taps, "git", ver("2.0")).result,
                             "docker", ver("1.0")).result, "Xcode", app("2.0")).result,
        upsertCask(upsertBrew(upsertBrew(e, "git", ver("1.0")).result,
                              "docker", ver("1.0")).result, "docker", ver("2.0")).result,
        upsertMas(upsertTap(e, "user/repo", url).result, "Xcode", app("1.0")).result,
        upsertMas(upsertCask(upsertBrew(e, "git", ver("2.0")).result,
                             "git", ver("2.0")).result, "xcode", app("1.0")).result}

\* a document written by hand: a formula, and a store app without its id
NoIdDoc ==
    upsertMas(upsertBrew(createEmptyLockFile, "git",
                         Obj(<<Member("version", Str("2.0"))>>)).result,
              "Xcode", Obj(<<Member("version", Str("1.0"))>>)).result

ReplayFiles ==
    {MissingFile, InvalidText}
    \cup {serializeLockFile(d) : d \in ReplayDocs \cup {NoIdDoc}}

\* the live systems a replay starts on
ReplaySystems ==
    {EmptySystem, FullSystem,
     [FullSystem EXCEPT !.infoOk = FALSE],
     [EmptySystem EXCEPT !.tapOk = FALSE]}

InitReplay ==
    /\ content \in ReplayFiles
    /\ sys \in ReplaySystems
    /\ replay = NoReplay
    /\ checked = Null
    /\ parsed = Null
    /\ lockFile = createEmptyLockFile
    /\ call = NoCall
    /\ steps = 0
    /\ update = <<>>

\* every entry of doc is satisfied on s: its tap is in the list getAllTaps
\* returns, or its recorded version is the one getPackageVersion returns
AllSatisfied(doc, s) ==
    /\ \A i \in DOMAIN doc.tap :
         \E j \in DOMAIN getAllTaps(s) : getAllTaps(s)[j] = doc.tap[i].k
    /\ \A type \in {"brew", "cask", "mas"} :
         \A i \in DOMAIN doc[type] :
            getPackageVersion(s, type, doc[type][i].k) = Get(doc[type][i].v.v, "version")

\* a run that starts on the live system s; `satisfied` keeps whether every
\* entry was satisfied at that moment
StartedOn(file, strict, s, again) ==
    [Started(file, strict) EXCEPT !.again = again,
                                  !.satisfied = AllSatisfied(readLockFile(file), s)]

\* bundleInstall({ lockFilePath, strict })
BundleInstall ==
    /\ replay.pc = "idle"
    /\ \E strict \in BOOLEAN : replay' = StartedOn(content, strict, sys, FALSE)
    /\ UNCHANGED <<lockFile, call, steps, content, parsed, sys, checked, update>>

\* bundleInstall run again on the same lock file, after a run that completed
\* or was interrupted between two entries
BundleInstallAgain ==
    /\ replay.pc # "idle"
    /\ ~replay.again
    /\ \E strict \in BOOLEAN : replay' = StartedOn(content, strict, sys, TRUE)
    /\ UNCHANGED <<lockFile, call, steps, content, parsed, sys, checked, update>>

\* the entry of the current iteration
Current == replay.doc[replay.pc][replay.i]

\* the iteration did `did` for the current entry
Iterate(type, did) ==
    /\ replay' = AfterEntry(replay, type, Current.k, did)
    /\ sys' = did.sys
    /\ UNCHANGED <<lockFile, call, steps, content, parsed, checked, update>>

\* one iteration of `for (const [name, entry] of Object.entries(lockFile.tap))`
InstallTap ==
    /\ replay.pc = "tap"
    /\ \E exit \in Exits :
         Iterate("tap", installTap(Current.k, Current.v, sys, exit))

\* one iteration of the loop over lockFile.brew
InstallBrew ==
    /\ replay.pc = "brew"
    /\ \E exit \in Exits, v \in Versions :
         Iterate("brew", installBrew(Current.k, Current.v, replay.strict, sys, exit, v))

\* one iteration of the loop over lockFile.cask
InstallCask ==
    /\ replay.pc = "cask"
    /\ \E exit \in Exits, v \in Versions :
         Iterate("cask", installCask(Current.k, Current.v, replay.strict, sys, exit, v))

\* one iteration of the loop over lockFile.mas
InstallMas ==
    /\ replay.pc = "mas"
    /\ \E exit \in Exits, v \in Versions :
         Iterate("mas", installMas(Current.k, Current.v, replay.strict, sys, exit, v))

NextReplay ==
    \/ BundleInstall
    \/ BundleInstallAgain
    \/ InstallTap
    \/ InstallBrew
    \/ InstallCask
    \/ InstallMas

SpecReplay == InitReplay /\ [][NextReplay]_vars

\* every awaited call of a loop iteration completes, so a run that is not
\* interrupted goes on to its next iteration
FairSpecReplay ==
    SpecReplay /\ WF_vars(InstallTap \/ InstallBrew \/ InstallCask \/ InstallMas)

\* the phase order the replay is to follow: taps, formulae, casks, store apps
Phase(type) == CASE type = "tap" -> 1 [] type = "brew" -> 2
                 [] type = "cask" -> 3 [] type = "mas" -> 4

\* every entry of doc of a phase before `type` has completed in run r
EarlierPhasesCompleted(r, doc, type) ==
    \A t \in {"tap", "brew", "cask", "mas"} :
        Phase(t) < Phase(type) =>
            \A i \in DOMAIN doc[t] :
                \E o \in DOMAIN r.outcomes :
                    r.outcomes[o].type = t /\ r.outcomes[o].name = doc[t][i].k

\* C14: replay works in the phase order taps, formulae, casks, store apps: a
\* step makes a query, register or install call for an entry only when every
\* entry of all earlier phases has already completed, successfully or not.
C14_PhaseOrder ==
    [][\A k \in (Len(replay.log) + 1)..Len(replay'.log) :
          EarlierPhasesCompleted(replay, replay'.doc, replay'.log[k].type)]_vars

C14_Witness ==
    /\ replay.pc = "done"
    /\ ~replay.strict
    /\ \A t \in {"tap", "brew", "cask", "mas"} :
         \E k \in DOMAIN replay.log : replay.log[k].type = t /\ replay.log[k].kind # "query"
    /\ \E o \in DOMAIN replay.outcomes :
         replay.outcomes[o].type = "tap" /\ ~replay.outcomes[o].success
    /\ Len(replay.doc.tap) > 1

\* the events the step adds to the log
NewEvents == SubSeq(replay'.log, Len(replay.log) + 1, Len(replay'.log))

\* the outcome the step records for the entry it processed
NewOutcome == replay'.outcomes[Len(replay'.outcomes)]

\* the step processes a formula, cask or store-app entry
VersionedStep ==
    /\ replay.pc \in {"brew", "cask", "mas"}
    /\ Len(replay'.outcomes) = Len(replay.outcomes) + 1

\* the live version of the entry about to be processed, and the recorded one
LiveVersion == getPackageVersion(sys, replay.pc, Current.k)

RecordedVersion == Get(Current.v.v, "version")

\* C15: an entry of a formula, cask or store app whose live version equals
\* the recorded version is reported as a success and no install call is made
\* for it, in strict and in non-strict mode.
C15_SkipOnMatch ==
    [][(VersionedStep /\ LiveVersion = RecordedVersion) =>
          /\ NewOutcome = Outcome(replay.pc, Current.k, TRUE)
          /\ \A k \in DOMAIN NewEvents : NewEvents[k].kind = "query"]_vars

\* the log holds no install call and no warning for the entry (type, name)
OnlyQueried(type, name) ==
    \A k \in DOMAIN replay.log :
        (replay.log[k].type = type /\ replay.log[k].name = name) =>
            replay.log[k].kind = "query"

C15_Witness ==
    /\ replay.pc = "done"
    /\ replay.strict
    /\ replay.result = Bool(TRUE)
    /\ \E o \in DOMAIN replay.outcomes :
         /\ replay.outcomes[o].type = "brew"
         /\ replay.outcomes[o].success
         /\ OnlyQueried("brew", replay.outcomes[o].name)
    /\ \E o \in DOMAIN replay.outcomes :
         /\ replay.outcomes[o].type = "mas"
         /\ replay.outcomes[o].success
         /\ OnlyQueried("mas", replay.outcomes[o].name)

\* the live version of the entry about to be processed exists but differs
\* from the recorded one
Mismatched == LiveVersion # Null /\ LiveVersion # RecordedVersion

\* C16: in strict mode an entry whose live version exists but differs from
\* the recorded version fails, no install call is made for it, and the
\* result of the replay is failure.
C16_StrictMismatchFails ==
    [][(VersionedStep /\ replay.strict /\ Mismatched) =>
          /\ NewOutcome = Outcome(replay.pc, Current.k, FALSE)
          /\ \A k \in DOMAIN NewEvents : NewEvents[k].kind # "install"
          /\ replay'.result = Bool(FALSE)]_vars

C16_Witness ==
    /\ replay.pc = "done"
    /\ replay.strict
    /\ replay.result = Bool(FALSE)
    /\ replay.log # <<>>
    /\ replay.log[Len(replay.log)].kind = "warn"
    /\ replay.log[Len(replay.log)].type = "brew"
    /\ replay.outcomes[Len(replay.outcomes)] =
         Outcome("brew", replay.log[Len(replay.log)].name, FALSE)

\* the number of entries of a document
Entries(doc) == Len(doc.tap) + Len(doc.brew) + Len(doc.cask) + Len(doc.mas)

\* an entry of the run has failed
SomeFailed == \E o \in DOMAIN replay.outcomes : ~replay.outcomes[o].success

\* every call and warning in the log was made for an entry that has an outcome
LogWithinOutcomes ==
    \A k \in DOMAIN replay.log :
        \E o \in DOMAIN replay.outcomes :
            /\ replay.outcomes[o].type = replay.log[k].type
            /\ replay.outcomes[o].name = replay.log[k].name

\* C17: in strict mode the first failing entry (mismatch, failed install,
\* failed tap registration) ends the replay: it is the last entry processed,
\* nothing is queried, registered or installed for an entry after it, and
\* the result is failure.
C17_StrictFailFast ==
    (replay.strict /\ SomeFailed) =>
        /\ replay.pc = "done"
        /\ replay.result = Bool(FALSE)
        /\ \A o \in DOMAIN replay.outcomes :
             ~replay.outcomes[o].success => o = Len(replay.outcomes)
        /\ LogWithinOutcomes

C17_Witness ==
    /\ replay.strict
    /\ SomeFailed
    /\ Len(replay.outcomes) + 2 <= Entries(replay.doc)
    /\ replay.log[Len(replay.log)].kind = "register"
    /\ Len(replay.doc.tap) > Len(replay.outcomes)

\* the entries of a section as kind and name, in the order of the document
Listed(doc, type) == [i \in DOMAIN doc[type] |-> <<type, doc[type][i].k>>]

\* the entries of a document in phase order
EntryList(doc) ==
    Listed(doc, "tap") \o Listed(doc, "brew") \o Listed(doc, "cask") \o Listed(doc, "mas")

\* the number of events of the given kinds logged for entry e
Calls(e, kinds) ==
    Cardinality({k \in DOMAIN replay.log :
                    /\ replay.log[k].type = e[1]
                    /\ replay.log[k].name = e[2]
                    /\ replay.log[k].kind \in kinds})

\* C18: in non-strict mode every entry of the document is processed exactly
\* once whatever happened to the entries before it: the entries processed so
\* far are the first ones of the document in phase order, each was queried
\* once and installed or registered at most once, and when the replay ends
\* every entry has been processed.
C18_NonStrictProcessesAll ==
    (~replay.strict /\ replay.pc # "idle") =>
        LET list == EntryList(replay.doc)
        IN /\ Len(replay.outcomes) <= Len(list)
           /\ \A o \in DOMAIN replay.outcomes :
                /\ <<replay.outcomes[o].type, replay.outcomes[o].name>> = list[o]
                /\ Calls(list[o], {"query"}) = 1
                /\ Calls(list[o], {"install", "register"}) <= 1
           /\ replay.pc = "done" => Len(replay.outcomes) = Len(list)

C18_Witness ==
    /\ ~replay.strict
    /\ replay.pc = "done"
    /\ Len(replay.outcomes) >= 4
    /\ ~replay.outcomes[1].success
    /\ ~replay.outcomes[3].success
    /\ replay.outcomes[Len(replay.outcomes)].success
    /\ replay.log[Len(replay.log)].kind = "install"

\* entry e succeeded: it was skipped as already satisfied (queried, nothing
\* else), or its register or install call exited with code 0
EntrySucceeded(e) ==
    IF Calls(e, {"install", "register"}) = 0 THEN Calls(e, {"warn"}) = 0
    ELSE \A k \in DOMAIN replay.log :
            (/\ replay.log[k].type = e[1]
             /\ replay.log[k].name = e[2]
             /\ replay.log[k].kind \in {"install", "register"}) =>
                replay.log[k].exit = "exit0"

\* C19: the boolean replay returns is true exactly when every entry that was
\* processed succeeded (was skipped as already satisfied, or its register or
\* install call exited with code 0); one failed entry makes it false even
\* when every entry after it succeeds.
C19_ResultIsConjunction ==
    replay.pc = "done" =>
        /\ replay.result =
             Bool(\A o \in DOMAIN replay.outcomes :
                     EntrySucceeded(<<replay.outcomes[o].type, replay.outcomes[o].name>>))
        /\ \A o \in DOMAIN replay.outcomes :
             replay.outcomes[o].success
               <=> EntrySucceeded(<<replay.outcomes[o].type, replay.outcomes[o].name>>)

C19_Witness ==
    /\ replay.pc = "done"
    /\ replay.result = Bool(FALSE)
    /\ Len(replay.outcomes) >= 3
    /\ ~replay.outcomes[1].success
    /\ \A o \in DOMAIN replay.outcomes : o > 1 => replay.outcomes[o].success
    /\ \E k \in DOMAIN replay.log : replay.log[k].kind = "install"

\* the number written with the decimal digits d
RECURSIVE DigitsValue(_)
DigitsValue(d) ==
    IF d = <<>> THEN 0
    ELSE 10 * DigitsValue(SubSeq(d, 1, Len(d) - 1)) + d[Len(d)]

\* event e is the install call due for the entry (type, name, entry): the
\* formula or cask by its recorded name, the store app by its numeric id
InstallsAsRecorded(e, type, name, entry) ==
    /\ e.kind = "install"
    /\ e.type = type
    /\ e.name = name
    /\ CASE type = "brew" -> e.cmd = "brew" /\ e.args = <<"install", name>>
         [] type = "cask" -> e.cmd = "brew" /\ e.args = <<"install", "--cask", name>>
         [] type = "mas" -> /\ e.cmd = "mas"
                            /\ e.args = <<"install">>
                            /\ e.id # <<>>
                            /\ DigitsValue(e.id) = Get(entry.v, "id").v

\* C20: in non-strict mode an entry whose live version exists but differs
\* from the recorded one gets a warning and then exactly one install call,
\* by its recorded name (store app: by its numeric id), and the outcome of
\* the entry is the success or failure of that call alone.
C20_NonStrictMismatchInstalls ==
    [][(VersionedStep /\ ~replay.strict /\ Mismatched) =>
          /\ Len(NewEvents) = 3
          /\ NewEvents[1].kind = "query"
          /\ NewEvents[2] = WarnEvent(replay.pc, Current.k)
          /\ InstallsAsRecorded(NewEvents[3], replay.pc, Current.k, Current.v)
          /\ NewOutcome = Outcome(replay.pc, Current.k, NewEvents[3].exit = "exit0")]_vars

C20_Witness ==
    /\ ~replay.strict
    /\ Len(replay.log) >= 3
    /\ replay.log[Len(replay.log) - 1].kind = "warn"
    /\ replay.log[Len(replay.log)].kind = "install"
    /\ replay.log[Len(replay.log)].type = "cask"
    /\ replay.log[Len(replay.log)].exit = "exit1"
    /\ ~replay.outcomes[Len(replay.outcomes)].success
    /\ \E k \in DOMAIN replay.log :
         /\ replay.log[k].kind = "install"
         /\ replay.log[k].type = "brew"
         /\ replay.log[k].exit = "exit0"
         /\ replay.log[k - 1].kind = "warn"

\* C21: when the live-version query of an entry reports no version, because
\* the package is not installed or because the query failed, replay makes the
\* install call for the entry, in strict and in non-strict mode, without a
\* warning; the outcome is that of the call, so an absent package is never
\* by itself a strict-mode failure.
C21_AbsentIsInstalled ==
    [][(VersionedStep /\ LiveVersion = Null) =>
          /\ Len(NewEvents) = 2
          /\ NewEvents[1].kind = "query"
          /\ InstallsAsRecorded(NewEvents[2], replay.pc, Current.k, Current.v)
          /\ NewOutcome = Outcome(replay.pc, Current.k, NewEvents[2].exit = "exit0")]_vars

C21_Witness ==
    /\ replay.strict
    /\ replay.pc = "done"
    /\ replay.result = Bool(TRUE)
    /\ ~sys.infoOk
    /\ \E k \in DOMAIN replay.log :
         /\ replay.log[k].kind = "install"
         /\ replay.log[k].type = "brew"
    /\ \E k \in DOMAIN replay.log :
         /\ replay.log[k].kind = "install"
         /\ replay.log[k].type = "cask"
    /\ \A k \in DOMAIN replay.log : replay.log[k].kind # "warn"

\* the lock file holds a store-app entry without a numeric id
HasStoreAppWithoutId ==
    /\ content.syntax = "json"
    /\ content.value.t = "object"
    /\ Get(content.value.v, "mas").t = "object"
    /\ \E i \in DOMAIN Get(content.value.v, "mas").v :
         LET entry == Get(content.value.v, "mas").v[i].v
         IN entry.t = "object" /\ Get(entry.v, "id").t # "number"

\* C22: a store-app entry without a numeric store id makes replay report a
\* failure, in strict and in non-strict mode, and no install call is made
\* for it.
C22_NoIdFails ==
    (replay.pc = "done" /\ HasStoreAppWithoutId) =>
        /\ replay.result = Bool(FALSE)
        /\ \A k \in DOMAIN replay.log :
             replay.log[k].type = "mas" => replay.log[k].kind # "install"

\* the step processes a tap entry
TapStep ==
    /\ replay.pc = "tap"
    /\ Len(replay'.outcomes) = Len(replay.outcomes) + 1

\* the tap of the entry about to be processed is in the live list of taps
Registered == \E i \in DOMAIN getAllTaps(sys) : getAllTaps(sys)[i] = Current.k

\* the record of the entry about to be processed has a URL
RecordedUrl == Get(Current.v.v, "url")

\* C23: for a tap entry no version is compared: a tap in the live list of
\* registered taps succeeds without a register call; otherwise exactly one
\* register call is made, with the recorded URL as extra argument exactly
\* when the record has one, and the outcome is the success of that call.
C23_TapPresence ==
    [][TapStep =>
          /\ NewEvents[1] = QueryEvent("tap", Current.k)
          /\ \A k \in DOMAIN NewEvents : NewEvents[k].kind # "warn"
          /\ Registered =>
               /\ Len(NewEvents) = 1
               /\ NewOutcome = Outcome("tap", Current.k, TRUE)
          /\ ~Registered =>
               /\ Len(NewEvents) = 2
               /\ NewEvents[2].kind = "register"
               /\ NewEvents[2].cmd = "brew"
               /\ NewEvents[2].args =
                    IF RecordedUrl.t = "string" /\ RecordedUrl.v # ""
                    THEN <<"tap", Current.k, RecordedUrl.v>>
                    ELSE <<"tap", Current.k>>
               /\ NewOutcome = Outcome("tap", Current.k, NewEvents[2].exit = "exit0")]_vars

C23_Witness ==
    /\ replay.pc # "tap"
    /\ \E k \in DOMAIN replay.log :
         /\ replay.log[k].kind = "register"
         /\ Len(replay.log[k].args) = 3
         /\ replay.log[k].exit = "exit0"
    /\ \E k \in DOMAIN replay.log :
         /\ replay.log[k].kind = "register"
         /\ Len(replay.log[k].args) = 2
         /\ replay.log[k].exit = "exit1"
    /\ replay.outcomes[1] = Outcome("tap", "homebrew/cask", FALSE)
    /\ replay.outcomes[2] = Outcome("tap", "user/repo", TRUE)

\* the step processes an entry, of any kind, in a run after the first
EntryStepAgain ==
    /\ replay.again
    /\ replay.pc \in {"tap", "brew", "cask", "mas"}
    /\ Len(replay'.outcomes) = Len(replay.outcomes) + 1

\* the entry about to be processed is satisfied on the live system
Satisfied ==
    IF replay.pc = "tap" THEN Registered ELSE LiveVersion = RecordedVersion

\* the log of the run holds no install and no register call
NoInstallCalls ==
    \A k \in DOMAIN replay.log : replay.log[k].kind \notin {"install", "register"}

\* C24: re-running replay is idempotent: in a run after a completed or
\* interrupted one, an entry that is satisfied (live version equal to the
\* recorded one, tap registered) is skipped with success and without an
\* install or register call; and a run started when every entry is satisfied
\* makes no install or register call at all and returns success.
C24_RerunIdempotent ==
    /\ [][(EntryStepAgain /\ Satisfied) =>
             /\ NewOutcome = Outcome(replay.pc, Current.k, TRUE)
             /\ \A k \in DOMAIN NewEvents : NewEvents[k].kind = "query"]_vars
    /\ [](replay.satisfied =>
             /\ NoInstallCalls
             /\ \A o \in DOMAIN replay.outcomes : replay.outcomes[o].success
             /\ replay.pc = "done" => replay.result = Bool(TRUE))

C24_Witness ==
    /\ replay.again
    /\ replay.satisfied
    /\ replay.strict
    /\ replay.pc = "done"
    /\ Len(replay.outcomes) >= 4
    /\ replay.doc.tap # <<>>
    /\ ~sys.tapOk \/ sys.formulae # FullSystem.formulae

\* C25: replay never raises past its boundary: whatever queries, register
\* calls and install calls fail, a store-app installer that cannot be started
\* included, the run terminates and its result is a boolean.
C25_NeverRaises ==
    /\ [](replay.result \in {Null, Bool(TRUE), Bool(FALSE)})
    /\ [](replay.pc = "done" => replay.result \in {Bool(TRUE), Bool(FALSE)})
    /\ (replay.pc \in {"tap", "brew", "cask", "mas"}) ~> (replay.pc = "done")

C25_Witness ==
    /\ replay.pc = "done"
    /\ replay.result = Bool(FALSE)
    /\ \E k \in DOMAIN replay.log :
         /\ replay.log[k].kind = "install"
         /\ replay.log[k].type = "mas"
         /\ replay.log[k].exit = "spawnError"
    /\ \E k \in DOMAIN replay.log :
         /\ replay.log[k].kind = "register"
         /\ replay.log[k].exit = "spawnError"

\* C26: replay of a document with four empty mappings, and replay of a
\* lock-file path that does not exist, returns success without issuing any
\* query, register or install call.
NothingToReplay == content \in {MissingFile, serializeLockFile(createEmptyLockFile)}

C26_EmptyReplay ==
    (NothingToReplay /\ replay.pc # "idle") =>
        /\ replay.pc = "done"
        /\ replay.result = Bool(TRUE)
        /\ replay.log = <<>>
        /\ replay.outcomes = <<>>

C26_Witness ==
    /\ content = MissingFile
    /\ replay.pc = "done"
    /\ replay.result = Bool(TRUE)
    /\ replay.log = <<>>
    /\ sys = FullSystem

\* the names `brew tap` lists on the live system
ListedTaps == {getAllTaps(sys)[i] : i \in DOMAIN getAllTaps(sys)}

\* C27: every tap the listing reports as registered is present, by name, in
\* the generated document (and so in the file `lock` or an upgrade of
\* everything writes), and a listed tap named by a `tap` command is present
\* in the file written after it, whether or not tap-info gave its URL,
\* commit or official flag: no tap is dropped because tap-info fails or has
\* nothing for it.
C27_TapsNeverDropped ==
    /\ \A name \in ListedTaps : HasKey(generateLockFile(sys).tap, name)
    /\ WroteSnapshot =>
         \A name \in ListedTaps : HasKey(readLockFile(content).tap, name)
    /\ call.op = "tap" =>
         \A i \in DOMAIN call.entry.v :
            call.entry.v[i] \in ListedTaps =>
               HasKey(readLockFile(content).tap, call.entry.v[i])

\* every formula, cask and store-app record of doc has a non-empty version
\* string
NonEmptyVersions(doc) ==
    \A type \in {"brew", "cask", "mas"} :
        \A i \in DOMAIN doc[type] :
            LET version == Get(doc[type][i].v.v, "version")
            IN version.t = "string" /\ version.v # ""

\* C28: in every document the system holds, returned by parseLockFile (the
\* lock file as read), by generateLockFile or written by the lock update
\* after a command, every formula, cask and store-app record has a non-empty
\* version string.
C28_VersionsNonEmpty ==
    /\ NonEmptyVersions(readLockFile(content))
    /\ NonEmptyVersions(generateLockFile(sys))

\* the sequence q from its last element to its first
Reverse(q) == [i \in DOMAIN q |-> q[Len(q) + 1 - i]]

\* for (const m of members) doc = upsert(doc, type, m.k, m.v)
RECURSIVE UpsertAll(_, _, _)
UpsertAll(doc, type, members) ==
    IF members = <<>> THEN doc
    ELSE UpsertAll(upsert(doc, type, Head(members).k, Head(members).v).result,
                   type, Tail(members))

\* the document built by upserting the entries of doc in the opposite order
Reupserted(doc) ==
    UpsertAll(UpsertAll(UpsertAll(UpsertAll([createEmptyLockFile EXCEPT !.version = doc.version],
                                            "mas", Reverse(doc.mas)),
                                  "cask", Reverse(doc.cask)),
                        "brew", Reverse(doc.brew)),
              "tap", Reverse(doc.tap))

\* the names of the model in the order of their UTF-16 code units
NameOrder == <<"Xcode", "docker", "git", "homebrew/cask", "user/repo", "xcode">>

NameRank(name) == CHOOSE i \in DOMAIN NameOrder : NameOrder[i] = name

\* the property names of a serialized object, in the order of the text
Names(object) == [i \in DOMAIN object.v |-> object.v[i].k]

\* the names are in ascending order
Ordered(names) ==
    \A i, j \in DOMAIN names : i < j => NameRank(names[i]) < NameRank(names[j])

\* C29: serializeLockFile is byte-stable: two documents with the same format
\* version and equal mappings serialize to identical text whatever the order
\* in which their entries were upserted; the text has the kinds in the order
\* tap, brew, cask, mas and, within each kind, the names in ascending order.
C29_ByteStable ==
    LET text == serializeLockFile(lockFile)
        other == Reupserted(lockFile)
    IN /\ SameDoc(lockFile, other) => serializeLockFile(other) = text
       /\ Names(text.value) = <<"version", "tap", "brew", "cask", "mas">>
       /\ \A type \in PackageTypes : Ordered(Names(Get(text.value.v, type)))

(***************************************************************************)
(* The command line: parseCommand and main.  An invocation is help, lock,  *)
(* check, bundle install (the replay) or a command passed through to brew. *)
(***************************************************************************)
\* the largest exit code of brew in the model
MaxExitCode == 2

\* arg.startsWith("-") on the arguments of the model
StartsWithDash(arg) ==
    arg \in {"--cask", "--formula", "--verbose", "--force", "--help", "-h"}

MODIFYING_COMMANDS ==
    {"install", "uninstall", "remove", "rm", "upgrade", "tap", "untap", "reinstall"}

MODIFYING_BUNDLE_SUBCOMMANDS == {"install", "cleanup"}

isModifyingCommand(command) == command \in MODIFYING_COMMANDS

\* while (commandIndex < args.length && args[commandIndex]?.startsWith("-")) commandIndex++
RECURSIVE CommandIndex(_)
CommandIndex(args) ==
    IF args = <<>> \/ ~StartsWithDash(Head(args)) THEN 0
    ELSE 1 + CommandIndex(Tail(args))

\* the loop over remainingArgs: the last of --cask and --formula decides
RECURSIVE IsCask(_, _)
IsCask(remainingArgs, isCask) ==
    IF remainingArgs = <<>> THEN isCask
    ELSE IsCask(Tail(remainingArgs),
                CASE Head(remainingArgs) = "--cask" -> TRUE
                  [] Head(remainingArgs) = "--formula" -> FALSE
                  [] OTHER -> isCask)

ParsedCommand(command, subcommand, isCask, packages, args, modifiesPackages, isBundle) ==
    [command |-> command, subcommand |-> subcommand, isCask |-> isCask,
     packages |-> packages, args |-> args, modifiesPackages |-> modifiesPackages,
     isBundle |-> isBundle]

parseCommand(args) ==
    LET commandIndex == CommandIndex(args)
        command == IF commandIndex < Len(args) THEN args[commandIndex + 1] ELSE ""
        remainingArgs == SubSeq(args, commandIndex + 2, Len(args))
        packages == SelectSeq(remainingArgs, LAMBDA arg : ~StartsWithDash(arg))
        subcommand == IF packages # <<>> /\ packages[1] # "" /\ ~StartsWithDash(packages[1])
                      THEN packages[1] ELSE "install"
    IN IF args = <<>>
       THEN ParsedCommand("", Undefined, FALSE, <<>>, <<>>, FALSE, FALSE)
       ELSE IF command = "bundle"
       THEN ParsedCommand(command, Str(subcommand), FALSE,
                          IF packages = <<>> THEN <<>> ELSE Tail(packages), args,
                          subcommand \in MODIFYING_BUNDLE_SUBCOMMANDS, TRUE)
       ELSE IF command = "tap"
       THEN ParsedCommand(command, Undefined, FALSE, packages, args,
                          Len(packages) > 0, FALSE)
       ELSE ParsedCommand(command, Undefined, IsCask(remainingArgs, FALSE), packages,
                          args, isModifyingCommand(command), FALSE)

\* ExecutionResult of executeBrewCommandStreaming: a spawn error is exit code 1
ExecutionResult(exitCode) == [exitCode |-> exitCode, success |-> exitCode = 0]

ExecutionResults == {ExecutionResult(c) : c \in 0..MaxExitCode}

\* the lock update that follows any modifying command, whatever its exit code
ShouldUpdate_AnyExit(result, cmd) == cmd.modifiesPackages

\* if (result.success && parsed.modifiesPackages)
ShouldUpdate(result, cmd) == result.success /\ cmd.modifiesPackages

\* await Bun.write(filePath, content): the write is rejected when the path
\* cannot be written
BunWrite(w, writable) == IF w.threw \/ ~writable THEN Throw ELSE w

\* executeBrewCommandStreaming(args) as main called it, with what it returned
Spawned(args, result) == [argv |-> args, exitCode |-> result.exitCode]

\* what an invocation did: the ParsedCommand, the calls main made of
\* executeBrewCommandStreaming, the exit code of the process (null until
\* process.exit), whether the lock file was read and written, and the lock
\* file before the invocation
Ran(args, cmd, spawned, exitCode, read, wrote, before) ==
    [args |-> args, cmd |-> cmd, spawned |-> spawned, exitCode |-> exitCode,
     read |-> read, wrote |-> wrote, before |-> before]

\* main without its bundle install branch: `bundle install` is handed to brew
\* like any other modifying command
main_BundlePassedThrough(args, file, s, result, after, writable) ==
    LET cmd == parseCommand(args)
        locked == BunWrite(handleLock(s), writable)
        updates == ShouldUpdate(result, cmd)
        updated == BunWrite(updateLockFile(file, after, cmd.command, cmd.packages,
                                           cmd.isCask),
                            writable)
    IN IF args = <<>> \/ args[1] \in {"help", "--help", "-h"}
       THEN [file |-> file, sys |-> s, replay |-> NoReplay,
             trace |-> Ran(args, cmd, <<>>, Num(0), FALSE, FALSE, file)]
       ELSE IF args[1] = "lock"
       THEN [file |-> FileAfter(file, locked), sys |-> s, replay |-> NoReplay,
             trace |-> Ran(args, cmd, <<>>, Num(IF locked.threw THEN 1 ELSE 0),
                           FALSE, ~locked.threw, file)]
       ELSE IF args[1] = "check"
       THEN [file |-> file, sys |-> s, replay |-> NoReplay,
             trace |-> Ran(args, cmd, <<>>,
                           Num(IF checkLockFile(file, s).matches THEN 0 ELSE 1),
                           TRUE, FALSE, file)]
       ELSE [file |-> IF updates THEN FileAfter(file, updated) ELSE file,
             sys |-> after, replay |-> NoReplay,
             trace |-> Ran(args, cmd, <<Spawned(args, result)>>,
                           Num(IF updates /\ updated.threw THEN 1 ELSE result.exitCode),
                           updates, updates /\ ~updated.threw, file)]

\* main() up to process.exit, or up to the call of bundleInstall; `after`
\* is the live system the passed-through command leaves; an exception of
\* handleLock or updateLockFile reaches main().catch, which exits with 1
main(args, file, s, result, after, writable) ==
    LET cmd == parseCommand(args)
        locked == BunWrite(handleLock(s), writable)
        updates == ShouldUpdate(result, cmd)
        updated == BunWrite(updateLockFile(file, after, cmd.command, cmd.packages,
                                           cmd.isCask),
                            writable)
    IN IF args = <<>> \/ args[1] \in {"help", "--help", "-h"}
       THEN [file |-> file, sys |-> s, replay |-> NoReplay,
             trace |-> Ran(args, cmd, <<>>, Num(0), FALSE, FALSE, file)]
       ELSE IF args[1] = "lock"
       THEN [file |-> FileAfter(file, locked), sys |-> s, replay |-> NoReplay,
             trace |-> Ran(args, cmd, <<>>, Num(IF locked.threw THEN 1 ELSE 0),
                           FALSE, ~locked.threw, file)]
       ELSE IF args[1] = "check"
       THEN [file |-> file, sys |-> s, replay |-> NoReplay,
             trace |-> Ran(args, cmd, <<>>,
                           Num(IF checkLockFile(file, s).matches THEN 0 ELSE 1),
                           TRUE, FALSE, file)]
       ELSE IF cmd.isBundle /\ cmd.subcommand = Str("install")
       THEN [file |-> file, sys |-> s, replay |-> StartedOn(file, FALSE, s, FALSE),
             trace |-> Ran(args, cmd, <<>>, Null, TRUE, FALSE, file)]
       ELSE [file |-> IF updates THEN FileAfter(file, updated) ELSE file,
             sys |-> after, replay |-> NoReplay,
             trace |-> Ran(args, cmd, <<Spawned(args, result)>>,
                           Num(IF updates /\ updated.threw THEN 1 ELSE result.exitCode),
                           updates, updates /\ ~updated.threw, file)]

\* the argument vectors of the model
MainArgs ==
    {<<>>, <<"help">>, <<"lock">>, <<"check">>,
     <<"list">>, <<"info", "git">>,
     <<"install", "git">>, <<"install", "--cask", "docker">>,
     <<"--verbose", "upgrade">>, <<"reinstall", "--cask", "--formula", "git">>,
     <<"uninstall", "git">>, <<"rm", "--force", "docker">>,
     <<"tap">>, <<"tap", "user/repo">>, <<"untap", "homebrew/cask">>,
     <<"bundle">>, <<"bundle", "install">>, <<"bundle", "cleanup">>,
     <<"bundle", "dump">>}

MainFiles ==
    {MissingFile, InvalidText}
    \cup {[serializeLockFile(d) EXCEPT !.comments = c] : d \in ReplayDocs, c \in BOOLEAN}

MainSystems == {EmptySystem, FullSystem}

InitMain ==
    /\ content \in MainFiles
    /\ sys \in MainSystems
    /\ replay = NoReplay
    /\ checked = Null
    /\ parsed = Null
    /\ lockFile = createEmptyLockFile
    /\ call = NoCall
    /\ steps = 0
    /\ update = <<>>

\* one invocation of the command line
Main ==
    /\ call = NoCall
    /\ \E args \in MainArgs, result \in ExecutionResults, after \in MainSystems,
          writable \in BOOLEAN :
         LET run == main(args, content, sys, result, after, writable)
         IN /\ content' = run.file
            /\ sys' = run.sys
            /\ replay' = run.replay
            /\ call' = [NoCall EXCEPT !.op = "main",
                                      !.entry = [t |-> "main", v |-> run.trace]]
    /\ UNCHANGED <<lockFile, steps, parsed, checked, update>>

\* process.exit(success ? 0 : 1) once bundleInstall has returned
ExitAfterBundleInstall ==
    /\ call.op = "main"
    /\ call.entry.v.exitCode = Null
    /\ replay.pc = "done"
    /\ call' = [call EXCEPT !.entry.v.exitCode =
                               Num(IF replay.result = Bool(TRUE) THEN 0 ELSE 1)]
    /\ UNCHANGED <<lockFile, steps, content, parsed, sys, checked, replay, update>>

NextMain ==
    \/ Main
    \/ InstallTap
    \/ InstallBrew
    \/ InstallCask
    \/ InstallMas
    \/ ExitAfterBundleInstall

SpecMain == InitMain /\ [][NextMain]_vars

\* the invocation of this behaviour, once main has run
Invoked == call.op = "main"

Run == call.entry.v

\* main handed the arguments to brew
PassedThrough == Run.spawned # <<>>

\* the command passed through exited with code 0
CommandSucceeded == Run.spawned[1].exitCode = 0

\* C30: the lock file is read and then written only after a passed-through
\* command that modifies packages and exited with code 0; when the command
\* passed through fails or is not a modifying one, the lock file is neither
\* read nor written and the file on disk is exactly what it was.
C30_UpdateOnlyAfterSuccess ==
    Invoked =>
        /\ (Run.read /\ Run.wrote) =>
              /\ PassedThrough
              /\ Run.cmd.modifiesPackages
              /\ CommandSucceeded
        /\ (PassedThrough /\ ~(Run.cmd.modifiesPackages /\ CommandSucceeded)) =>
              /\ ~Run.read
              /\ ~Run.wrote
              /\ content = Run.before

C30_Witness ==
    /\ Invoked
    /\ PassedThrough
    /\ Run.cmd.command = "install"
    /\ Run.exitCode = Num(1)
    /\ sys # EmptySystem
    /\ content = Run.before
    /\ content.comments

\* the invocation is one of help (or no argument), lock, check, bundle install
OwnCommand ==
    \/ Run.args = <<>>
    \/ Run.args[1] \in {"help", "--help", "-h", "lock", "check"}
    \/ Run.cmd.isBundle /\ Run.cmd.subcommand = Str("install")

\* C31: for every invocation other than help, lock, check and bundle
\* install, brew is run exactly once with the original argument vector
\* unchanged, and the exit code of the wrapper equals the exit code of that
\* command whether or not a lock-file update follows.
C31_PassThrough ==
    (Invoked /\ ~OwnCommand) =>
        /\ Len(Run.spawned) = 1
        /\ Run.spawned[1].argv = Run.args
        /\ Run.exitCode = Num(Run.spawned[1].exitCode)

\* the invocation is the replay command
BundleInstallCommand == Run.cmd.isBundle /\ Run.cmd.subcommand = Str("install")

\* event e is a run of brew's own bundle command
RunsBrewBundle(e) == e.cmd = "brew" /\ e.args # <<>> /\ e.args[1] = "bundle"

\* C32: the replay command (bundle install) never runs brew's own bundle
\* command, and it exits with code 0 if and only if the replay returned
\* overall success, otherwise with code 1.
C32_ReplayExitCode ==
    (Invoked /\ BundleInstallCommand) =>
        /\ Run.spawned = <<>>
        /\ \A k \in DOMAIN replay.log : ~RunsBrewBundle(replay.log[k])
        /\ replay.pc # "idle"
        /\ Run.exitCode # Null =>
              /\ replay.pc = "done"
              /\ Run.exitCode \in {Num(0), Num(1)}
              /\ Run.exitCode = Num(0) <=> replay.result = Bool(TRUE)

C32_Witness ==
    /\ Invoked
    /\ BundleInstallCommand
    /\ Run.args = <<"bundle">>
    /\ Run.exitCode = Num(1)
    /\ replay.result = Bool(FALSE)
    /\ Len(replay.outcomes) >= 2
    /\ replay.outcomes[Len(replay.outcomes)].success

\* the names an entry of a document of the model can have
AllNames == TapNames \cup PkgNames \cup MasNames

\* the packages the last command named
Named == {call.entry.v[i] : i \in DOMAIN call.entry.v}

\* the last command was install, reinstall or upgrade with package names,
\* and its lock update is done
UpdatedNamed ==
    /\ call.op \in {"install", "reinstall", "upgrade"}
    /\ call.entry.t = "packages"
    /\ call.entry.v # <<>>

\* C33: after a successful install, reinstall or upgrade naming packages P
\* the written document is the document read at the start with, for each p
\* in P whose live version v is found, the entry of p in the selected kind
\* (cask with the cask flag, formula otherwise) set to {version: v}; the
\* entries of the packages of P without a live version and all other
\* entries of all kinds are unchanged.
C33_InstallUpdatesNamedOnly ==
    UpdatedNamed =>
        LET old == call.input
            new == readLockFile(content)
        IN /\ new.version = old.version
           /\ \A type \in PackageTypes :
                \A name \in AllNames :
                   /\ Count(new[type], name) <= 1
                   /\ IF /\ type = call.type
                         /\ name \in Named
                         /\ Truthy(getPackageVersion(sys, type, name))
                      THEN Get(new[type], name)
                             = Obj(<<Member("version", getPackageVersion(sys, type, name))>>)
                      ELSE DeepEq(Get(new[type], name), Get(old[type], name))

C33_Witness ==
    /\ call.op = "install"
    /\ call.type = "cask"
    /\ HasKey(call.input.brew, "docker")
    /\ HasKey(call.input.brew, "git")
    /\ Get(call.input.cask, "docker") = Obj(<<Member("version", Str("2.0"))>>)
    /\ Get(readLockFile(content).cask, "docker") = Obj(<<Member("version", Str("1.0"))>>)
    /\ ~HasKey(readLockFile(content).cask, "git")
    /\ HasKey(readLockFile(content).brew, "docker")

\* the records written in the sections of the top-level object v, as kind
\* and position, that fail (bad) or pass (not bad) the schema of their kind
Records(v, bad) ==
    {e \in PackageTypes \X (1..3) :
        LET sec == Get(v.v, e[1])
        IN /\ sec.t = "object"
           /\ e[2] \in DOMAIN sec.v
           /\ BadRecord(SectionSchema(e[1]), sec.v[e[2]].v) = bad}

\* the text is valid JSONC holding an object whose version and sections
\* have the right types, with exactly one record that fails its schema
SingleBadRecord(c) ==
    /\ c.syntax = "json" /\ c.value.t = "object"
    /\ Get(c.value.v, "version").t \in {"number", "null", "undefined"}
    /\ \A type \in PackageTypes : Get(c.value.v, type).t \in {"object", "null", "undefined"}
    /\ Cardinality(Records(c.value, TRUE)) = 1

\* C34: shape validation is all-or-nothing: when a syntactically valid lock
\* text holds a single record that fails validation, parseLockFile returns
\* the completely empty document, so every valid entry of every kind of
\* that text is absent from the result as well.
C34_AllOrNothing ==
    (parsed # Null /\ SingleBadRecord(content)) =>
        /\ parsed = Return(createEmptyLockFile)
        /\ \A e \in Records(content.value, FALSE) :
             ~HasKey(parsed.value[e[1]], Get(content.value.v, e[1]).v[e[2]].k)

C34_Witness ==
    /\ parsed # Null
    /\ SingleBadRecord(content)
    /\ Cardinality(Records(content.value, FALSE)) >= 3
    /\ \E e \in Records(content.value, TRUE) : e[1] = "mas"
    /\ \E e \in Records(content.value, FALSE) : e[1] = "brew"
    /\ parsed.value.brew = <<>>

(***************************************************************************)
(* updateLockFile step by step: the read at its start, one step for each   *)
(* iteration of its loop (or the regeneration), the write at its end.  Two *)
(* invocations of the command line may run at once on one lock file, and   *)
(* an invocation may be interrupted at any await.                          *)
(***************************************************************************)
Invocations == {"first", "second"}

\* an invocation that has not reached its lock update
NoUpdate ==
    [pc |-> "idle", command |-> "", packages |-> <<>>, isCask |-> FALSE, i |-> 0,
     doc |-> createEmptyLockFile, before |-> Null, saw |-> {},
     reads |-> 0, writes |-> 0]

\* a read at the start that does not look at the lock file
ReadAtStart_IgnoresFile(c, file, written) ==
    [NoUpdate EXCEPT !.pc = "mutating", !.command = c[1], !.packages = c[2],
                     !.isCask = c[3], !.i = 1, !.doc = createEmptyLockFile,
                     !.before = file, !.saw = written, !.reads = 1]

\* let lockFile = await readLockFile(lockFilePath), in the invocation of
\* command c; `saw` keeps the invocations that had written by then
ReadAtStart(c, file, written) ==
    [NoUpdate EXCEPT !.pc = "mutating", !.command = c[1], !.packages = c[2],
                     !.isCask = c[3], !.i = 1, !.doc = readLockFile(file),
                     !.before = file, !.saw = written, !.reads = 1]

\* the awaited steps between the read and the write: one for each named
\* package, or the regeneration of an upgrade without names
StepsOf(u) ==
    IF u.command = "upgrade" /\ u.packages = <<>> THEN 1 ELSE Len(u.packages)

\* the document after step u.i
Mutated(u, s) ==
    LET type == IF u.isCask THEN "cask" ELSE "brew"
        pkg == IF u.packages = <<>> THEN <<>> ELSE <<u.packages[u.i]>>
    IN CASE u.command \in {"install", "reinstall", "upgrade"} ->
              Regenerated(UpsertInstalled(u.doc, s, type, pkg), s, u.command, u.packages)
         [] u.command \in {"uninstall", "remove", "rm"} ->
              RemoveUninstalled(u.doc, type, pkg)
         [] u.command = "tap" -> UpsertTapped(u.doc, getAllTapsWithInfo(s), pkg)
         [] u.command = "untap" -> RemoveUntapped(u.doc, pkg)
         [] OTHER -> u.doc

\* a loop that writes the lock file after each of its iterations
AfterIteration_WriteThrough(file, doc) == FileAfter(file, writeLockFile(doc))

\* the lock file after an iteration of the loop: the loops do not write
AfterIteration(file, doc) == file

UpdateDoc ==
    Build(upsertTap(createEmptyLockFile, "homebrew/cask", Obj(<<>>)).result,
          <<<<"brew", "git", "1.0">>, <<"brew", "docker", "1.0">>,
            <<"cask", "docker", "2.0">>>>)

UpdateFiles == {MissingFile, serializeLockFile(UpdateDoc)}

UpdateSystems == {FullSystem, [FullSystem EXCEPT !.casks = <<>>]}

InitUpdate ==
    /\ content \in UpdateFiles
    /\ sys \in UpdateSystems
    /\ update = [inv \in Invocations |-> NoUpdate]
    /\ replay = NoReplay
    /\ checked = Null
    /\ parsed = Null
    /\ lockFile = createEmptyLockFile
    /\ call = NoCall
    /\ steps = 0

\* the invocations whose write is done
HaveWritten == {inv \in Invocations : update[inv].pc = "written"}

\* an invocation reaches updateLockFile and reads the lock file
UpdateRead ==
    /\ \E inv \in Invocations, c \in Commands :
         /\ update[inv].pc = "idle"
         /\ update' = [update EXCEPT ![inv] = ReadAtStart(c, content, HaveWritten)]
    /\ UNCHANGED <<lockFile, call, steps, content, parsed, sys, checked, replay>>

\* one iteration of the loop of the command
UpdateMutate ==
    \E inv \in Invocations :
        /\ update[inv].pc = "mutating"
        /\ update[inv].i <= StepsOf(update[inv])
        /\ update' = [update EXCEPT ![inv].doc = Mutated(update[inv], sys),
                                    ![inv].i = update[inv].i + 1]
        /\ content' = AfterIteration(content, Mutated(update[inv], sys))
        /\ UNCHANGED <<lockFile, call, steps, parsed, sys, checked, replay>>

\* await writeLockFile(lockFile, lockFilePath)
UpdateWrite ==
    \E inv \in Invocations :
        /\ update[inv].pc = "mutating"
        /\ update[inv].i > StepsOf(update[inv])
        /\ content' = FileAfter(content, writeLockFile(update[inv].doc))
        /\ update' = [update EXCEPT ![inv].pc = "written",
                                    ![inv].writes = update[inv].writes + 1]
        /\ UNCHANGED <<lockFile, call, steps, parsed, sys, checked, replay>>

\* the process of an invocation is interrupted before its write
Interrupt ==
    /\ \E inv \in Invocations :
         /\ update[inv].pc = "mutating"
         /\ update' = [update EXCEPT ![inv].pc = "interrupted"]
    /\ UNCHANGED <<lockFile, call, steps, content, parsed, sys, checked, replay>>

NextUpdate ==
    \/ UpdateRead
    \/ UpdateMutate
    \/ UpdateWrite
    \/ Interrupt

SpecUpdate == InitUpdate /\ [][NextUpdate]_vars

\* the lock file with every mutation of the command of u applied to what u
\* read
FullyUpdated(u) ==
    FileAfter(u.before, updateLockFile(u.before, sys, u.command, u.packages, u.isCask))

\* C35: during the lock update of one command the lock file is read once at
\* the start and written once after the last upsert or remove: every change
\* of the file on disk is the write of an invocation that puts the fully
\* updated document there, so the file holds the document as it was before
\* the command or the fully updated one, never one with only some of the
\* command's mutations, also when the invocation is interrupted between two
\* version queries.
C35_UpdateIsAtomic ==
    /\ [][content' # content =>
             \E inv \in Invocations :
                /\ update[inv].pc = "mutating"
                /\ update[inv].i > StepsOf(update[inv])
                /\ update'[inv].pc = "written"
                /\ content' = FullyUpdated(update[inv])]_vars
    /\ [](\A inv \in Invocations :
             /\ update[inv].reads <= 1
             /\ update[inv].writes <= 1
             /\ update[inv].writes = 1 <=> update[inv].pc = "written"
             /\ (\A other \in Invocations \ {inv} : update[other].pc = "idle") =>
                   IF update[inv].pc = "written"
                   THEN content = FullyUpdated(update[inv])
                   ELSE update[inv].pc # "idle" => content = update[inv].before)

C35_Witness ==
    /\ update["first"].pc = "interrupted"
    /\ update["second"].pc = "idle"
    /\ update["first"].command = "install"
    /\ Len(update["first"].packages) = 2
    /\ update["first"].i = 2
    /\ ~SameDoc(update["first"].doc, readLockFile(update["first"].before))
    /\ content = update["first"].before
    /\ content # FullyUpdated(update["first"])

\* the lock file after the whole lock update of the command of u on `file`
Updated(u, file) ==
    FileAfter(file, updateLockFile(file, sys, u.command, u.packages, u.isCask))

\* the entries the command of u names: section and name
Touched(u) ==
    LET section == IF u.command \in {"tap", "untap"} THEN "tap"
                   ELSE IF u.isCask THEN "cask" ELSE "brew"
    IN {<<section, u.packages[i]>> : i \in DOMAIN u.packages}

\* both invocations have completed lock updates that name different packages
BothCompleted ==
    /\ \A inv \in Invocations :
          update[inv].pc = "written" /\ update[inv].packages # <<>>
    /\ Touched(update["first"]) \cap Touched(update["second"]) = {}

\* invocation b read the lock file after invocation a had written it
InTurn(a, b) == a # b /\ update[a].saw = {} /\ update[b].saw = {a}

\* the lock file holds the updates of both invocations, one applied after
\* the other to the file the earlier reader found
BothUpdatesKept ==
    \E a \in Invocations : \E b \in Invocations \ {a} :
        /\ update[a].saw = {}
        /\ content = Updated(update[b], Updated(update[a], update[a].before))

\* C36 as stated: no update is lost between two invocations that update
\* different packages in the same lock file, for every interleaving of
\* their read, query and write steps, both reading before either writes
\* included.
C36_NoLostUpdate == BothCompleted => BothUpdatesKept

\* C36: no update is lost between two invocations that update different
\* packages in the same lock file when one of them reads the lock file
\* after the other has written it: the file then holds the second update
\* applied to the result of the first.
C36_NoLostUpdateInTurn ==
    \A a \in Invocations : \A b \in Invocations :
        BothCompleted /\ InTurn(a, b) =>
            content = Updated(update[b], Updated(update[a], update[a].before))

C36_Witness ==
    /\ BothCompleted
    /\ InTurn("first", "second")
    /\ update["first"].command = "upgrade"
    /\ update["second"].command = "install"
    /\ update["first"].before = MissingFile
    /\ Get(readLockFile(content).brew, "git")
         = Obj(<<Member("version", getPackageVersion(sys, "brew", "git"))>>)
    /\ Get(readLockFile(content).cask, "docker")
         = Obj(<<Member("version", getPackageVersion(sys, "cask", "docker"))>>)
    /\ Truthy(getPackageVersion(sys, "brew", "git"))
    /\ Truthy(getPackageVersion(sys, "cask", "docker"))

\* the external calls a replay run makes: `brew tap`, `brew install`,
\* `brew install --cask`, `mas install`
ReplayCalls ==
    {e \in {replay.log[i] : i \in DOMAIN replay.log} : e.kind \notin {"query", "warn"}}

\* C37: replay only reads the lock file: in every run, whatever succeeds or
\* fails, no step changes the lock file on disk, the document the run walks
\* stays the one read from the file, and no call of the run is an uninstall
\* or an untap, so the document on disk after replay equals the one before.
C37_ReplayOnlyReads ==
    /\ [][content' = content]_vars
    /\ [](replay.pc # "idle" =>
            /\ replay.doc = readLockFile(content)
            /\ \A e \in ReplayCalls :
                 /\ e.kind \in {"register", "install"}
                 /\ e.args # <<>>
                 /\ e.args[1] = IF e.kind = "register" THEN "tap" ELSE "install"
                 /\ \A a \in DOMAIN e.args : e.args[a] \notin {"uninstall", "untap"})

C37_Witness ==
    /\ replay.pc = "done"
    /\ replay.result = Bool(FALSE)
    /\ content \notin {MissingFile, InvalidText}
    /\ replay.doc = readLockFile(content)
    /\ \E e \in ReplayCalls : e.kind = "install" /\ e.exit = "exit0"
    /\ \E e \in ReplayCalls : e.kind = "register" /\ e.exit = "exit0"
    /\ \E e \in ReplayCalls : e.exit # "exit0"
    /\ \E i \in DOMAIN replay.log : replay.log[i].kind = "warn"

\* the positions in the log of the run of the events of `kinds` made for
\* entry (type, name)
EventsFor(type, name, kinds) ==
    {i \in DOMAIN replay.log :
        /\ replay.log[i].type = type
        /\ replay.log[i].name = name
        /\ replay.log[i].kind \in kinds}

\* the number of register and install calls in a log
RECURSIVE CallCount(_)
CallCount(log) ==
    IF log = <<>> THEN 0
    ELSE CallCount(Tail(log)) + (IF Head(log).kind \in {"register", "install"} THEN 1 ELSE 0)

\* C38: in one replay run each formula, cask and store-app entry gets at
\* most one live-version query followed by at most one install call, and
\* each tap entry at most one register call; the query of an entry precedes
\* its install, a failed call is not made again, and every call has ended
\* before the next one starts: a step of the run adds at most one call, and
\* the call has ended when the step is done.
C38_OneCallPerEntry ==
    /\ [](\A type \in {"tap", "brew", "cask", "mas"} :
            \A m \in DOMAIN replay.doc[type] :
               LET name == replay.doc[type][m].k
                   queries == EventsFor(type, name, {"query"})
                   calls == EventsFor(type, name, {"register", "install"})
               IN /\ Cardinality(queries) <= 1
                  /\ Cardinality(calls) <= 1
                  /\ \A c \in calls :
                       /\ replay.log[c].kind = IF type = "tap" THEN "register" ELSE "install"
                       /\ replay.log[c].exit \in Exits
                       /\ \E q \in queries : q < c)
    /\ [][replay'.again = replay.again =>
             CallCount(replay'.log) <= CallCount(replay.log) + 1]_vars

C38_Witness ==
    /\ replay.pc = "done"
    /\ ~replay.strict
    /\ \E type \in {"brew", "cask", "mas"} :
         \E m \in DOMAIN replay.doc[type] :
            LET name == replay.doc[type][m].k
            IN /\ Cardinality(EventsFor(type, name, {"query"})) = 1
               /\ \E c \in EventsFor(type, name, {"install"}) : replay.log[c].exit = "exit1"
    /\ \E m \in DOMAIN replay.doc.tap :
          \E c \in EventsFor("tap", replay.doc.tap[m].k, {"register"}) :
             replay.log[c].exit = "exit0"
    /\ CallCount(replay.log) >= 3

\* a replay run has returned overall success
ReplaySucceeded == replay.pc = "done" /\ replay.result = Bool(TRUE)

\* C39: if replay returns overall success, a drift check run immediately
\* afterwards on the same lock file reports matches: true, so that every
\* recorded formula, cask and store app is installed at exactly its recorded
\* version, also those the run installed in non-strict mode.
C39_SuccessMeansNoDrift ==
    ReplaySucceeded => checkLockFile(content, sys).matches

====
